---------------------------- MODULE Spec2Model ----------------------------
(***************************************************************************)
(* A model of the FIRE calculator: its simulation core                     *)
(* (src/src/lib/simulation.ts): the Mulberry32 generator, the constrained  *)
(* log-normal samplers, the single-path simulator, the Monte Carlo runner  *)
(* and the percentile aggregator; and its page                             *)
(* (src/src/components/FIRECalculator.tsx, src/src/components/ui/          *)
(* slider.tsx): React state, renders, effects, timers and the URL.         *)
(*                                                                         *)
(* Numbers.  A 32-bit word is a pair <<hi, lo>> of 16-bit halves, so that  *)
(* the generator's bit arithmetic is exact.  A number of the simulation is *)
(* a record [c, v]: c = "fin" with v the value in units of 1/SCALE, or one *)
(* of the IEEE-754 special values PosInf, NegInf, NaN.  Math.log,          *)
(* Math.exp, Math.sqrt and Math.cos are computed in that fixed point, with *)
(* the special cases of IEEE-754 (log 0 = -Infinity, Infinity - Infinity = *)
(* NaN, ...).  A number of the page is an exact IEEE-754 double.           *)
(***************************************************************************)
EXTENDS Integers, Sequences, FiniteSets, TLC

(***************************************************************************)
(* The state: a client of the library working on one parameter set.        *)
(*   params  the SimulationParams in use                                   *)
(*   clock   what Date.now() returned when it was last read, in            *)
(*           milliseconds counted from its first reading; from one reading *)
(*           to the next the clock may stand still, advance or be set back *)
(*   prev, last   the two most recent calls of runMonteCarloSimulation or  *)
(*           runSimulation: what was passed and what came back             *)
(*   bands   the last call of calculatePercentiles on last's results       *)
(*   ui      the FIRECalculator component, once the page is opened: its    *)
(*           React state, the values its last render showed, the timers    *)
(*           it has pending and the URL it wrote                           *)
(***************************************************************************)
VARIABLES params, clock, prev, last, bands, ui

vars == <<params, clock, prev, last, bands, ui>>

(***************************************************************************)
(* 32-bit words                                                            *)
(***************************************************************************)
H16 == 256 * 256

\* a & b for two 4-bit digits a, b: AndNibble[a + 1][b + 1]
AndNibble ==
  << << 0,  0,  0,  0,  0,  0,  0,  0,  0,  0,  0,  0,  0,  0,  0,  0>>,
     << 0,  1,  0,  1,  0,  1,  0,  1,  0,  1,  0,  1,  0,  1,  0,  1>>,
     << 0,  0,  2,  2,  0,  0,  2,  2,  0,  0,  2,  2,  0,  0,  2,  2>>,
     << 0,  1,  2,  3,  0,  1,  2,  3,  0,  1,  2,  3,  0,  1,  2,  3>>,
     << 0,  0,  0,  0,  4,  4,  4,  4,  0,  0,  0,  0,  4,  4,  4,  4>>,
     << 0,  1,  0,  1,  4,  5,  4,  5,  0,  1,  0,  1,  4,  5,  4,  5>>,
     << 0,  0,  2,  2,  4,  4,  6,  6,  0,  0,  2,  2,  4,  4,  6,  6>>,
     << 0,  1,  2,  3,  4,  5,  6,  7,  0,  1,  2,  3,  4,  5,  6,  7>>,
     << 0,  0,  0,  0,  0,  0,  0,  0,  8,  8,  8,  8,  8,  8,  8,  8>>,
     << 0,  1,  0,  1,  0,  1,  0,  1,  8,  9,  8,  9,  8,  9,  8,  9>>,
     << 0,  0,  2,  2,  0,  0,  2,  2,  8,  8, 10, 10,  8,  8, 10, 10>>,
     << 0,  1,  2,  3,  0,  1,  2,  3,  8,  9, 10, 11,  8,  9, 10, 11>>,
     << 0,  0,  0,  0,  4,  4,  4,  4,  8,  8,  8,  8, 12, 12, 12, 12>>,
     << 0,  1,  0,  1,  4,  5,  4,  5,  8,  9,  8,  9, 12, 13, 12, 13>>,
     << 0,  0,  2,  2,  4,  4,  6,  6,  8,  8, 10, 10, 12, 12, 14, 14>>,
     << 0,  1,  2,  3,  4,  5,  6,  7,  8,  9, 10, 11, 12, 13, 14, 15>> >>

\* x & y for x, y of the given number of hexadecimal digits
RECURSIVE AndDigits(_, _, _)
AndDigits(x, y, digits) ==
  IF digits = 0 THEN 0
  ELSE AndNibble[(x % 16) + 1][(y % 16) + 1]
       + (16 * AndDigits(x \div 16, y \div 16, digits - 1))

\* x & y for 16-bit x, y
And16(x, y) == AndDigits(x, y, 4)

Xor16(x, y) == (x + y) - (2 * And16(x, y))

Or16(x, y) == (x + y) - And16(x, y)

RECURSIVE Pow2(_)
Pow2(k) == IF k = 0 THEN 1 ELSE 2 * Pow2(k - 1)

\* the t with 2^t <= k < 2 * 2^t
RECURSIVE Log2Floor(_)
Log2Floor(k) == IF k < 2 THEN 0 ELSE 1 + Log2Floor(k \div 2)

\* a ^ b
WXor(a, b) == <<Xor16(a[1], b[1]), Xor16(a[2], b[2])>>

\* a | b
WOr(a, b) == <<Or16(a[1], b[1]), Or16(a[2], b[2])>>

\* a >>> k, for 0 < k < 16
WShr(a, k) ==
  <<a[1] \div Pow2(k), (a[2] \div Pow2(k)) + ((a[1] % Pow2(k)) * Pow2(16 - k))>>

\* (a + b) | 0
WAdd(a, b) ==
  LET lo == a[2] + b[2]
  IN  <<(a[1] + b[1] + (lo \div H16)) % H16, lo % H16>>

\* (x * y) mod 2^16 for 16-bit x, y, without leaving 32 bits
MulMod16(x, y) == ((x * (y % 256)) + (((x * (y \div 256)) % 256) * 256)) % H16

\* Math.imul(a, b): the low 32 bits of the product
WMul(a, b) ==
  LET t1    == a[2] * (b[2] % 256)
      t2    == a[2] * (b[2] \div 256)
      lo    == (t1 % H16) + ((t2 % 256) * 256)
      carry == (t1 \div H16) + (t2 \div 256) + (lo \div H16)
      cross == MulMod16(a[1], b[2]) + MulMod16(a[2], b[1])
  IN  <<(carry + cross) % H16, lo % H16>>

\* ToInt32 of an integer seed, as a word (two's complement)
ToWord(s) == <<(s \div H16) % H16, s % H16>>

\* 0x6D2B79F5
Increment == <<27947, 31221>>

\* -a, as a word
WNeg(a) == <<((H16 - a[1]) - (IF a[2] = 0 THEN 0 ELSE 1)) % H16, (H16 - a[2]) % H16>>


(***************************************************************************)
(* Numbers: fixed point with the IEEE-754 special values                   *)
(***************************************************************************)
SCALE == 100 * 100

Fin(v) == [c |-> "fin", v |-> v]
PosInf == [c |-> "inf", v |-> 1]
NegInf == [c |-> "inf", v |-> -1]
NaN    == [c |-> "nan", v |-> 0]
Zero   == Fin(0)
One    == Fin(SCALE)
\* the integer k as a number
Int2Num(k) == Fin(k * SCALE)

IsFinite(a) == a.c = "fin"
IsNaN(a) == a.c = "nan"
Abs(x) == IF x < 0 THEN -x ELSE x
Sgn(x) == IF x < 0 THEN -1 ELSE IF x > 0 THEN 1 ELSE 0

\* the largest magnitude of the fixed point, 2^31 - 1
MaxWhole == (Pow2(30) - 1) + Pow2(30)

(***************************************************************************)
(* Numbers as the page holds them: IEEE-754 doubles.  A number that is     *)
(* read, held, compared, added to and written (a seed, a parameter of the  *)
(* page) is [c, s, m, e]: NaN, an infinity with its sign s, or the value   *)
(* s * m * 2^e, with m a natural number of at most 53 bits that is odd and *)
(* e >= -1074 (0 is m = 0 and e = 0; the sign of a zero is not held).  A   *)
(* natural number of any size is the sequence of its digits to the base    *)
(* 2^15, lowest first, the highest not 0.  A value that is used more than  *)
(* once is handed on as the argument of an operator.                       *)
(***************************************************************************)
LIMB == 128 * 256

\* digits without the zeros at the top
BigTop(a) ==
  LET Top(n) ==
        IF \A i \in 1..n : a[i] = 0 THEN <<>>
        ELSE SubSeq(a, 1, CHOOSE i \in 1..n : a[i] # 0 /\ \A j \in (i + 1)..n : a[j] = 0)
  IN  Top(Len(a))

\* digit i of x, 0 beyond its digits
BigAt(x, i) == IF 1 <= i /\ i <= Len(x) THEN x[i] ELSE 0

\* the n digits v, of up to 2^31 - 1 each, as the sum of three numbers of
\* digits below LIMB, added digit by digit
BigSplit(v, n) ==
  LET Of(i) == IF 1 <= i /\ i <= n THEN v[i] ELSE 0
  IN  BigTop([i \in 1..(n + 2) |->
                (Of(i) % LIMB) + ((Of(i - 1) \div LIMB) % LIMB)
                  + (Of(i - 2) \div (LIMB * LIMB))])

\* what is beyond LIMB - 1 in a digit is added to the next one
BigAdded(x) ==
  IF x = <<>> THEN <<>>
  ELSE BigTop([i \in 1..(Len(x) + 1) |-> (BigAt(x, i) % LIMB) + (BigAt(x, i - 1) \div LIMB)])

\* one is carried into a digit from the nearest digit below it that is not
\* LIMB - 1, when that one is beyond LIMB - 1
BigCarried(x) ==
  IF x = <<>> THEN <<>>
  ELSE BigTop([i \in 1..(Len(x) + 1) |->
                 (BigAt(x, i)
                    + (IF \E j \in 1..(i - 1) :
                            x[j] >= LIMB /\ \A k \in (j + 1)..(i - 1) : x[k] = LIMB - 1
                       THEN 1 ELSE 0)) % LIMB])

\* the number of the digits v[1], v[2], ... for digits of up to 2^31 - 1
BigOf(v) == IF v = <<>> THEN <<>> ELSE BigCarried(BigAdded(BigSplit(v, Len(v))))

\* the natural number n
Big(n) == BigOf(<<n>>)

\* a natural number below 2^31, as an integer
Small(a) ==
  (IF Len(a) >= 1 THEN a[1] ELSE 0) + (IF Len(a) >= 2 THEN LIMB * a[2] ELSE 0)
    + (IF Len(a) >= 3 THEN LIMB * LIMB * a[3] ELSE 0)

\* -1, 0, 1 for a < b, a = b, a > b
BigCompare(a, b) ==
  LET Highest(i) == IF a[i] < b[i] THEN -1 ELSE 1
  IN  IF Len(a) # Len(b) THEN (IF Len(a) < Len(b) THEN -1 ELSE 1)
      ELSE IF a = b THEN 0
      ELSE Highest(CHOOSE i \in 1..Len(a) : a[i] # b[i] /\ \A j \in (i + 1)..Len(a) : a[j] = b[j])

\* a + b
BigSum(a, b) ==
  IF a = <<>> THEN b
  ELSE IF b = <<>> THEN a
  ELSE BigOf([i \in 1..(IF Len(a) > Len(b) THEN Len(a) ELSE Len(b)) |->
           (IF i <= Len(a) THEN a[i] ELSE 0) + (IF i <= Len(b) THEN b[i] ELSE 0)])

\* a - b for a >= b: a + (LIMB^n - 1 - b) + 1 without its digit n + 1
BigDiff(a, b) ==
  IF a = b THEN <<>>
  ELSE BigTop(SubSeq(BigOf([i \in 1..Len(a) |->
                         a[i] + ((LIMB - 1) - (IF i <= Len(b) THEN b[i] ELSE 0))
                           + (IF i = 1 THEN 1 ELSE 0)]),
                1, Len(a)))

\* a * k + carry for 0 <= k <= 2^15 and 0 <= carry < 2^15
BigTimes(a, k, carry) ==
  BigOf(IF a = <<>> THEN <<carry>>
        ELSE [i \in 1..Len(a) |-> (a[i] * k) + (IF i = 1 THEN carry ELSE 0)])

\* a * 2^n
BigShl(a, n) ==
  IF a = <<>> THEN <<>> ELSE [i \in 1..(n \div 15) |-> 0] \o BigTimes(a, Pow2(n % 15), 0)

\* a \div 2^n
BigShr(a, n) ==
  IF n \div 15 >= Len(a) THEN <<>>
  ELSE BigTop([i \in 1..(Len(a) - (n \div 15)) |->
                 (BigAt(a, i + (n \div 15)) \div Pow2(n % 15))
                 + ((BigAt(a, i + (n \div 15) + 1) % Pow2(n % 15)) * Pow2(15 - (n % 15)))])

\* the number of bits of a
BigBits(a) == IF a = <<>> THEN 0 ELSE (15 * (Len(a) - 1)) + Log2Floor(a[Len(a)]) + 1

\* bit i of a, bit 0 the lowest
BigBit(a, i) ==
  IF i < 0 \/ i \div 15 >= Len(a) THEN 0 ELSE (a[(i \div 15) + 1] \div Pow2(i % 15)) % 2

\* a * base^k for 1 < base < 2^15, at most `chunk` factors at a time
\* (base^chunk <= 2^15)
RECURSIVE BigPow(_, _, _, _)
BigPow(a, base, chunk, k) ==
  IF k <= chunk THEN BigTimes(a, base ^ k, 0)
  ELSE IF a = <<>> THEN <<>>
  ELSE BigPow(BigPow(a, base, chunk, k \div 2), base, chunk, k - (k \div 2))

\* the digits of dividend \div divisor, the highest first, and the
\* remainder, for a quotient of `places` digits and a divisor of which the
\* highest digit is LIMB / 2 or more: a digit of the quotient is what the
\* highest digits give for it, or up to 2 less
RECURSIVE LongDivision(_, _, _)

\* the two highest digits of the dividend, of which digit n is the one
\* over the highest of the divisor, over that one
DivisionEstimate(dividend, divisor, n) ==
  LET Least(estimate) == IF estimate < LIMB THEN estimate ELSE LIMB - 1
  IN  Least((((IF n < Len(dividend) THEN dividend[n + 1] ELSE 0) * LIMB)
               + (IF n <= Len(dividend) THEN dividend[n] ELSE 0))
              \div divisor[Len(divisor)])

DivisionFits(product, dividend) == product = <<>> \/ BigCompare(product, dividend) <= 0

\* the digit of the quotient for the divisor shifted to its place
DivisionDigit(dividend, shifted, estimate) ==
  IF DivisionFits(BigTimes(shifted, estimate, 0), dividend) THEN estimate
  ELSE IF DivisionFits(BigTimes(shifted, estimate - 1, 0), dividend) THEN estimate - 1
  ELSE estimate - 2

DivisionJoined(digit, below) == <<<<digit>> \o below[1], below[2]>>

\* the digits below the highest one, for what is left of the dividend
DivisionBelow(rest, divisor, places) ==
  IF rest = <<>> THEN <<[i \in 1..(places - 1) |-> 0], <<>>>>
  ELSE LongDivision(rest, divisor, places - 1)

DivisionTaken(dividend, divisor, places, shifted, digit) ==
  IF digit = 0 THEN DivisionJoined(0, LongDivision(dividend, divisor, places - 1))
  ELSE DivisionJoined(digit, DivisionBelow(BigDiff(dividend, BigTimes(shifted, digit, 0)),
                                           divisor, places))

DivisionPlace(dividend, divisor, places, shifted) ==
  DivisionTaken(dividend, divisor, places, shifted,
                DivisionDigit(dividend, shifted,
                              DivisionEstimate(dividend, divisor, Len(shifted))))

LongDivision(dividend, divisor, places) ==
  IF places <= 0 THEN <<<<>>, dividend>>
  ELSE IF dividend = <<>> THEN <<[i \in 1..places |-> 0], <<>>>>
  ELSE DivisionPlace(dividend, divisor, places, [i \in 1..(places - 1) |-> 0] \o divisor)

\* the n digits of a quotient, the lowest first, and the remainder of the
\* dividend as it was before it was shifted
DivisionResult(division, shift, n) ==
  <<BigTop([i \in 1..n |-> division[1][(n + 1) - i]]), BigShr(division[2], shift)>>

DivisionShifted(shifted, divisor, shift) ==
  DivisionResult(LongDivision(shifted, BigShl(divisor, shift),
                              (Len(shifted) - Len(divisor)) + 1),
                 shift, (Len(shifted) - Len(divisor)) + 1)

\* dividend \div divisor and dividend % divisor for a divisor that is not
\* 0: both are shifted for the highest digit of the divisor to be LIMB / 2
\* or more
BigDivision(dividend, divisor) ==
  IF dividend = <<>> \/ BigCompare(dividend, divisor) < 0 THEN <<<<>>, dividend>>
  ELSE DivisionShifted(BigShl(dividend, (15 * Len(divisor)) - BigBits(divisor)), divisor,
                       (15 * Len(divisor)) - BigBits(divisor))

DoubleNaN == [c |-> "nan", s |-> 1, m |-> <<>>, e |-> 0]
Infinity(s) == [c |-> "inf", s |-> s, m |-> <<>>, e |-> 0]

\* s * m * 2^e without the `low` zeros below the lowest bit of m that is 1
OddDouble(s, m, e, low) == [c |-> "fin", s |-> s, m |-> BigShr(m, low), e |-> e + low]

\* the double s * m * 2^e for m of at most 53 bits and e >= -1074: an
\* infinity from 2^1024 on
Double(s, m, e) ==
  IF m = <<>> THEN [c |-> "fin", s |-> 1, m |-> <<>>, e |-> 0]
  ELSE IF BigBits(m) + e > 1024 THEN Infinity(s)
  ELSE OddDouble(s, m, e, CHOOSE i \in 0..(15 * Len(m)) :
                            BigBit(m, i) = 1 /\ \A j \in 0..(i - 1) : BigBit(m, j) = 0)

\* more than half of the last place kept is dropped with the lowest `drop`
\* bits of n, or half of it and the last place is odd
RoundedUp(n, exact, drop) ==
  /\ BigBit(n, drop - 1) = 1
  /\ \/ ~exact
     \/ BigBit(n, drop) = 1
     \/ \E i \in 0..(drop - 2) : BigBit(n, i) = 1

RoundedAt(s, n, exact, e, drop) ==
  Double(s, BigSum(BigShr(n, drop), IF RoundedUp(n, exact, drop) THEN <<1>> ELSE <<>>),
         e + drop)

\* the bits dropped of a number of `bits` bits times 2^e: those below
\* 2^-1074 and those beyond 53
DroppedBits(bits, e) ==
  IF bits - 53 > -1074 - e
  THEN (IF bits > 53 THEN bits - 53 ELSE 0)
  ELSE (IF -1074 - e > 0 THEN -1074 - e ELSE 0)

\* the double nearest to s * n * 2^e, ties to even, for n increased by a
\* fraction below 1 that is 0 iff `exact`
Rounded(s, n, exact, e) ==
  IF n = <<>> THEN Double(s, <<>>, 0)
  ELSE RoundedAt(s, n, exact, e, DroppedBits(BigBits(n), e))

RatioQuotient(s, division, d) == Rounded(s, division[1], division[2] = <<>>, d - 56)

RatioShifted(s, num, den, d) ==
  RatioQuotient(s, BigDivision(IF d < 56 THEN BigShl(num, 56 - d) ELSE num,
                               IF d < 56 THEN den ELSE BigShl(den, d - 56)),
                d)

\* the double nearest to s * num / den: the quotient is taken to 56 or 57
\* bits, with num or den shifted
Ratio(s, num, den) ==
  IF num = <<>> THEN Double(s, <<>>, 0)
  ELSE RatioShifted(s, num, den, BigBits(num) - BigBits(den))

\* the integer k
Whole(k) == Double(IF k < 0 THEN -1 ELSE 1, Big(IF k < 0 THEN -k ELSE k), 0)

\* x + y for a = |x| / 2^e and b = |y| / 2^e
PlusAligned(x, y, a, b, e) ==
  Rounded(IF x.s = y.s \/ BigCompare(a, b) >= 0 THEN x.s ELSE y.s,
          IF x.s = y.s THEN BigSum(a, b)
          ELSE IF BigCompare(a, b) >= 0 THEN BigDiff(a, b)
          ELSE BigDiff(b, a),
          TRUE, e)

PlusFinite(x, y, e) == PlusAligned(x, y, BigShl(x.m, x.e - e), BigShl(y.m, y.e - e), e)

\* x + y
Plus(x, y) ==
  IF x.c = "nan" \/ y.c = "nan" THEN DoubleNaN
  ELSE IF x.c = "inf" THEN (IF y.c = "inf" /\ y.s # x.s THEN DoubleNaN ELSE x)
  ELSE IF y.c = "inf" THEN y
  ELSE IF x.m = <<>> THEN y
  ELSE IF y.m = <<>> THEN x
  ELSE PlusFinite(x, y, IF x.e < y.e THEN x.e ELSE y.e)

\* -x
Minus(x) == IF x.c = "nan" \/ (x.c = "fin" /\ x.m = <<>>) THEN x ELSE [x EXCEPT !.s = -x.s]

\* x < y
Less(x, y) ==
  /\ x.c # "nan" /\ y.c # "nan" /\ x # y
  /\ Plus(y, Minus(x)).s > 0

\* x | 0, as a word: the integer part of x modulo 2^32 (0 for NaN and the
\* infinities)
ToInt32(x) ==
  LET Word(low, high) == <<(low \div H16) + ((high % 4) * (H16 \div 4)), low % H16>>
      Low(a) == Word((IF Len(a) >= 1 THEN a[1] ELSE 0) + (IF Len(a) >= 2 THEN LIMB * a[2] ELSE 0),
                     IF Len(a) >= 3 THEN a[3] ELSE 0)
      Signed(word) == IF x.s < 0 THEN WNeg(word) ELSE word
  IN  IF x.c # "fin" \/ x.e >= 32 THEN <<0, 0>>
      ELSE Signed(Low(IF x.e >= 0 THEN BigShl(x.m, x.e) ELSE BigShr(x.m, -x.e)))

\* the units of 1 / SCALE of x, a number that is not 0, in the fixed point
FxUnits(x, units) ==
  IF BigBits(units) > 31 THEN Fin(x.s * MaxWhole)
  ELSE IF units = <<>> THEN Fin(x.s)
  ELSE Fin(x.s * Small(units))

FxScaled(x, scaled) ==
  FxUnits(x, IF x.e >= 0 THEN scaled
             ELSE BigShr(BigSum(scaled, BigShl(<<1>>, (-x.e) - 1)), -x.e))

\* the number x in the fixed point of the arithmetic: the multiple of
\* 1 / SCALE nearest to it, the largest one of the fixed point for all
\* beyond it, and one that is not 0 for an x that is not 0
Fx(x) ==
  IF x.c = "nan" THEN NaN
  ELSE IF x.c = "inf" THEN (IF x.s < 0 THEN NegInf ELSE PosInf)
  ELSE IF x.m = <<>> THEN Zero
  ELSE IF BigBits(x.m) + x.e > 31 THEN Fin(x.s * MaxWhole)
  ELSE FxScaled(x, BigShl(BigTimes(x.m, SCALE, 0), IF x.e > 0 THEN x.e ELSE 0))

\* and the double nearest to a number of the fixed point
Widened(a) ==
  IF IsNaN(a) THEN DoubleNaN
  ELSE IF ~IsFinite(a) THEN Infinity(Sgn(a.v))
  ELSE Ratio(Sgn(a.v), Big(Abs(a.v)), Big(SCALE))

\* x * y / SCALE for x, y >= 0, rounded to nearest, without leaving 32 bits
MulAbs(x, y) ==
  LET xq == x \div SCALE
      xr == x % SCALE
      yq == y \div SCALE
      yr == y % SCALE
  IN  (xq * yq * SCALE) + (xq * yr) + (xr * yq) + (((xr * yr) + (SCALE \div 2)) \div SCALE)

MulFx(x, y) == Sgn(x) * Sgn(y) * MulAbs(Abs(x), Abs(y))

\* x * SCALE / y for x >= 0, y > 0, rounded to nearest, two digits at a time
DivAbs(x, y) ==
  LET q  == x \div y
      r1 == (x % y) * 100
      q1 == r1 \div y
      r2 == (r1 % y) * 100
      q2 == r2 \div y
      up == IF 2 * (r2 % y) >= y THEN 1 ELSE 0
  IN  (q * SCALE) + (q1 * 100) + q2 + up

DivFx(x, y) == Sgn(x) * Sgn(y) * DivAbs(Abs(x), Abs(y))

\* IEEE-754 comparison: every comparison with NaN is false
NLe(a, b) ==
  /\ ~IsNaN(a) /\ ~IsNaN(b)
  /\ \/ a = b
     \/ a = NegInf
     \/ b = PosInf
     \/ IsFinite(a) /\ IsFinite(b) /\ a.v <= b.v

NLt(a, b) == NLe(a, b) /\ a # b
NEq(a, b) == ~IsNaN(a) /\ a = b

NNeg(a) == IF IsNaN(a) THEN NaN ELSE [c |-> a.c, v |-> -a.v]

\* a + b
NAdd(a, b) ==
  IF IsNaN(a) \/ IsNaN(b) THEN NaN
  ELSE IF IsFinite(a) /\ IsFinite(b) THEN Fin(a.v + b.v)
  ELSE IF IsFinite(a) THEN b
  ELSE IF IsFinite(b) THEN a
  ELSE IF a = b THEN a ELSE NaN

\* a - b
NSub(a, b) == NAdd(a, NNeg(b))

\* a * b
NMul(a, b) ==
  IF IsNaN(a) \/ IsNaN(b) THEN NaN
  ELSE IF IsFinite(a) /\ IsFinite(b) THEN Fin(MulFx(a.v, b.v))
  ELSE IF a.v = 0 \/ b.v = 0 THEN NaN
  ELSE IF Sgn(a.v) = Sgn(b.v) THEN PosInf ELSE NegInf

\* a / b
NDiv(a, b) ==
  IF IsNaN(a) \/ IsNaN(b) THEN NaN
  ELSE IF IsFinite(a) /\ IsFinite(b)
       THEN IF b.v # 0 THEN Fin(DivFx(a.v, b.v))
            ELSE IF a.v = 0 THEN NaN
            ELSE IF a.v > 0 THEN PosInf ELSE NegInf
  ELSE IF IsFinite(a) THEN Zero
  ELSE IF IsFinite(b) THEN (IF (a.v < 0) # (b.v < 0) THEN NegInf ELSE PosInf)
  ELSE NaN

\* Math.max(a, b)
NMax(a, b) ==
  IF IsNaN(a) \/ IsNaN(b) THEN NaN
  ELSE IF NLe(a, b) THEN b ELSE a

(***************************************************************************)
(* Math.log, Math.exp, Math.sqrt, Math.cos in fixed point                  *)
(***************************************************************************)
\* k * ln 2
KLn2(k) == Sgn(k) * (((Abs(k) * 6931472) + 500) \div 1000)

\* the binary exponent of m / SCALE: the k with SCALE * 2^k <= m < 2 * SCALE * 2^k
RECURSIVE Exponent(_)
Exponent(m) ==
  IF m >= 2 * SCALE THEN 1 + Exponent(m \div 2)
  ELSE IF m < SCALE THEN Exponent(2 * m) - 1
  ELSE 0

RECURSIVE Mantissa(_)
Mantissa(m) ==
  IF m >= 2 * SCALE THEN Mantissa(m \div 2)
  ELSE IF m < SCALE THEN Mantissa(2 * m)
  ELSE m

\* ln(1 + f) for the mantissa m = 1 + f in [1, 2): 2 * atanh((m - 1) / (m + 1))
LnMantissa(m) ==
  LET t  == DivFx(m - SCALE, m + SCALE)
      t2 == MulFx(t, t)
      t3 == MulFx(t, t2)
      t5 == MulFx(t3, t2)
      t7 == MulFx(t5, t2)
      t9 == MulFx(t7, t2)
  IN  ((2 * ((315 * t) + (105 * t3) + (63 * t5) + (45 * t7) + (35 * t9))) + 157) \div 315

\* ln(v / SCALE) for v > 0
LnFx(v) == KLn2(Exponent(v)) + LnMantissa(Mantissa(v))

\* exp(r) for |r| <= ln(2)/2, by its Taylor series (Horner)
ExpSmall(r) ==
  LET h6 == SCALE + (r \div 6)
      h5 == SCALE + (MulFx(r, h6) \div 5)
      h4 == SCALE + (MulFx(r, h5) \div 4)
      h3 == SCALE + (MulFx(r, h4) \div 3)
      h2 == SCALE + (MulFx(r, h3) \div 2)
  IN  SCALE + MulFx(r, h2)

\* exp(x / SCALE): x = k * ln 2 + r
ExpFx(x) ==
  LET k == (x + 3466) \div 6931
      r == x - KLn2(k)
      m == ExpSmall(r)
  IN  IF k >= 0 THEN m * Pow2(k) ELSE (m + (Pow2(-k) \div 2)) \div Pow2(-k)

\* floor(x * y / SCALE) for x, y >= 0
MulFloor(x, y) ==
  LET xq == x \div SCALE
      xr == x % SCALE
      yq == y \div SCALE
      yr == y % SCALE
  IN  (xq * yq * SCALE) + (xq * yr) + (xr * yq) + ((xr * yr) \div SCALE)

\* sqrt(v / SCALE) for v >= 0: the largest y with y * y <= v, bit by bit
RECURSIVE SqrtBits(_, _, _)
SqrtBits(v, y, bit) ==
  IF bit = 0 THEN y
  ELSE LET c == y + bit
           sq == MulFloor(c, c)
           fits == sq < v \/ (sq = v /\ ((c % SCALE) * (c % SCALE)) % SCALE = 0)
       IN  IF fits THEN SqrtBits(v, c, bit \div 2) ELSE SqrtBits(v, y, bit \div 2)

\* the first power of two whose square exceeds v
RECURSIVE SqrtTop(_, _)
SqrtTop(v, bit) == IF MulFloor(bit, bit) > v THEN bit ELSE SqrtTop(v, 2 * bit)

SqrtFx(v) == SqrtBits(v, 0, SqrtTop(v, 1))

\* pi
PiFx == (31415927 + 500) \div 1000

\* cos(t / SCALE) for 0 <= t <= pi/2, by its Taylor series (Horner)
CosSmall(t) ==
  LET t2  == MulFx(t, t)
      h12 == SCALE - (t2 \div 132)
      h10 == SCALE - (MulFx(t2, h12) \div 90)
      h8  == SCALE - (MulFx(t2, h10) \div 56)
      h6  == SCALE - (MulFx(t2, h8) \div 30)
      h4  == SCALE - (MulFx(t2, h6) \div 12)
  IN  SCALE - (MulFx(t2, h4) \div 2)

\* cos(x / SCALE)
CosFx(x) ==
  LET a == Abs(x) % (2 * PiFx)
      b == IF a > PiFx THEN (2 * PiFx) - a ELSE a
  IN  IF 2 * b > PiFx THEN -CosSmall(PiFx - b) ELSE CosSmall(b)

NLog(a) ==
  IF IsNaN(a) THEN NaN
  ELSE IF a = PosInf THEN PosInf
  ELSE IF a.v < 0 THEN NaN
  ELSE IF a.v = 0 THEN NegInf
  ELSE Fin(LnFx(a.v))

NExp(a) ==
  IF IsNaN(a) THEN NaN
  ELSE IF a = PosInf THEN PosInf
  ELSE IF a = NegInf THEN Zero
  ELSE Fin(ExpFx(a.v))

NSqrt(a) ==
  IF IsNaN(a) THEN NaN
  ELSE IF a = PosInf THEN PosInf
  ELSE IF a.v < 0 THEN NaN
  ELSE Fin(SqrtFx(a.v))

NCos(a) ==
  IF IsNaN(a) \/ ~IsFinite(a) THEN NaN
  ELSE Fin(CosFx(a.v))

(***************************************************************************)
(* A draw of the generator is a word w standing for w / 2^32.              *)
(***************************************************************************)
\* the draw as a number
DrawNum(w) == Fin(((w[1] * SCALE) + ((w[2] * SCALE) \div H16) + (H16 \div 2)) \div H16)

\* Math.log of a draw, taken from the word so that a small draw keeps its
\* digits: ln(w / 2^32) = ln(w / 2^k) - (32 - k) * ln 2
LogDraw(w) ==
  IF w = <<0, 0>> THEN NegInf
  ELSE IF w[1] > 0
       THEN Fin(LnFx((w[1] * SCALE) + ((w[2] * SCALE) \div H16)) - KLn2(16))
       ELSE Fin(LnFx(w[2] * SCALE) - KLn2(32))

(***************************************************************************)
(* createSeededRandom: Mulberry32.  The closure's one cell is `seed`; a    *)
(* call advances it and returns an unsigned 32-bit word w, standing for    *)
(* the number w / 2^32.  Any other `random: () => number` handed to        *)
(* runSimulation is a "script": the (cyclic) sequence of values it         *)
(* returns.                                                                *)
(***************************************************************************)
createSeededRandom(seed) == [kind |-> "mulberry32", seed |-> ToWord(seed), calls |-> 0]

\* the integer k with (k + 0x6D2B79F5) | 0 = (x + i + 0x6D2B79F5) | 0 for a
\* number x and an integer i, so that createSeededRandom(x + i) is the
\* generator createSeededRandom(k): the sums are doubles, and | 0 makes 0
\* of NaN and of an infinity and drops the fraction of the sum, towards 0
IntegerSeed(x, i) ==
  LET Integer(word) == IF word[1] >= H16 \div 2 THEN ((word[1] - H16) * H16) + word[2]
                       ELSE (word[1] * H16) + word[2]
  IN  Integer(WAdd(ToInt32(Plus(Plus(x, Whole(i)), Whole(1831565813))), WNeg(Increment)))


\* (seed + 0x6D2B79F5) | 0 for a seed beyond 32 bits given by its digits
\* d[1] * 2^32 + d[2] * 2^16 + d[3] (d[1] any integer, 0 <= d[2], d[3] < 2^16):
\* the sum is a double, rounded to 53 bits, ties to even, and | 0 keeps the
\* low 32 bits of that
RoundedSum(d) ==
  LET lo   == d[3] + Increment[2]
      mid  == d[2] + Increment[1] + (lo \div H16)
      \* the sum before rounding, in digits of the same kind
      s    == <<d[1] + (mid \div H16), mid % H16, lo % H16>>
      \* the digits of |s|
      m    == IF s[1] >= 0 THEN s
              ELSE IF s[2] = 0 /\ s[3] = 0 THEN <<-s[1], 0, 0>>
              ELSE <<(-s[1]) - 1, WNeg(<<s[2], s[3]>>)[1], WNeg(<<s[2], s[3]>>)[2]>>
      \* the low bits of m a double cannot hold: those beyond 53 (fewer than 16)
      drop == IF m[1] < Pow2(21) THEN 0 ELSE Log2Floor(m[1]) - 20
      r    == m[3] % Pow2(drop)
      low  == IF 2 * r > Pow2(drop) \/ (2 * r = Pow2(drop) /\ (m[3] \div Pow2(drop)) % 2 = 1)
              THEN (m[3] - r) + Pow2(drop)
              ELSE m[3] - r
      word == <<(m[2] + (low \div H16)) % H16, low % H16>>
  IN  IF s[1] >= 0 THEN word ELSE WNeg(word)

\* createSeededRandom for a seed beyond 32 bits, given by its digits.  The
\* cell is a double until the first call makes it a 32-bit integer; the
\* model holds the word from which the first call steps to the same state.
createSeededRandomWide(d) ==
  [kind |-> "mulberry32", seed |-> WAdd(RoundedSum(d), WNeg(Increment)), calls |-> 0]

ScriptedRandom(draws) == [kind |-> "script", draws |-> draws, calls |-> 0]

\* a state step without `| 0`: seed = seed + 0x6D2B79F5
Mulberry32StateUnbounded(seed) ==
  <<seed[1] + Increment[1] + ((seed[2] + Increment[2]) \div H16),
    (seed[2] + Increment[2]) % H16>>

\* seed = (seed + 0x6D2B79F5) | 0
Mulberry32State(seed) == WAdd(seed, Increment)

\* let t = Math.imul(seed ^ (seed >>> 15), 1 | seed)
Mulberry32Mix1(seed) == WMul(WXor(seed, WShr(seed, 15)), WOr(<<0, 1>>, seed))

\* t = (t + Math.imul(t ^ (t >>> 7), 61 | t)) ^ t
Mulberry32Mix2(t) == WXor(WAdd(t, WMul(WXor(t, WShr(t, 7)), WOr(<<0, 61>>, t))), t)

\* (t ^ (t >>> 14)) >>> 0, the numerator of the value returned
Mulberry32Mix3(t) == WXor(t, WShr(t, 14))

\* the value returned for the advanced state: lines 8-10
Mulberry32Output(seed) == Mulberry32Mix3(Mulberry32Mix2(Mulberry32Mix1(seed)))

\* the value the next call random() returns
DrawValue(rng) ==
  IF rng.kind = "mulberry32"
  THEN Mulberry32Output(Mulberry32State(rng.seed))
  ELSE rng.draws[(rng.calls % Len(rng.draws)) + 1]

\* the generator after that call
DrawNext(rng) ==
  IF rng.kind = "mulberry32"
  THEN [kind |-> "mulberry32", seed |-> Mulberry32State(rng.seed), calls |-> rng.calls + 1]
  ELSE [rng EXCEPT !.calls = @ + 1]

\* one call random(): the value returned and the generator afterwards
Draw(rng) == [value |-> DrawValue(rng), rng |-> DrawNext(rng)]

(***************************************************************************)
(* The constrained samplers                                                *)
(***************************************************************************)
\* volatility: number = 0.30
ReturnVolatility == Fin((30 * SCALE) \div 100)

\* volatility: number = 0.015
InflationVolatility == Fin((15 * SCALE) \div 1000)

\* z = Math.sqrt(-2 * Math.log(u1)) * Math.cos(2 * Math.PI * u2).  An
\* infinite radius takes the sign of the cosine, and the cosine of a double
\* is never 0: at u2 = 1/4 the angle is the double below pi/2 and the cosine
\* 6.1e-17, at u2 = 3/4 the double below 3pi/2 and the cosine -1.8e-16; every
\* other draw is at least 2^-32 away from both.
BoxMuller(u1, u2) ==
  LET radius == NSqrt(NMul(Int2Num(-2), LogDraw(u1)))
      CosPositive == \/ u2[1] < 16384
                     \/ u2 = <<16384, 0>>
                     \/ u2[1] > 49152
                     \/ u2[1] = 49152 /\ u2[2] > 0
  IN  IF radius = PosInf
      THEN (IF CosPositive THEN PosInf ELSE NegInf)
      ELSE NMul(radius, NCos(NMul(NMul(Int2Num(2), Fin(PiFx)), DrawNum(u2))))

\* targetLogReturn + volatility * z, of the two draws u1, u2 of a period
SampleLog(targetLog, volatility, u1, u2) ==
  NAdd(targetLog, NMul(volatility, BoxMuller(u1, u2)))

\* the loop `for (let i = 0; i < years; i++)` of both samplers: two draws and
\* one pushed log rate per period
RECURSIVE SampleLogs(_, _, _, _, _, _)
SampleLogs(i, years, targetLog, volatility, rng, logs) ==
  IF i >= years THEN [logs |-> logs, rng |-> rng]
  ELSE SampleLogs(i + 1, years, targetLog, volatility, DrawNext(DrawNext(rng)),
                  Append(logs, SampleLog(targetLog, volatility,
                                         DrawValue(rng), DrawValue(DrawNext(rng)))))

\* logs.reduce((sum, r) => sum + r, 0)
RECURSIVE SumFrom(_, _, _)
SumFrom(xs, i, sum) ==
  IF i > Len(xs) THEN sum ELSE SumFrom(xs, i + 1, NAdd(sum, xs[i]))

NSum(xs) == SumFrom(xs, 1, Zero)

\* (totalTargetLog - currentSum) / years
Adjustment(targetLog, years, logs) ==
  NDiv(NSub(NMul(targetLog, Int2Num(years)), NSum(logs)), Int2Num(years))

\* logs.map(r => r + adjustment)
AdjustedLogs(targetLog, years, logs) ==
  LET adjustment == Adjustment(targetLog, years, logs)
  IN  [i \in 1..Len(logs) |-> NAdd(logs[i], adjustment)]

\* logR => Math.exp(logR) - 1
ReturnOfLog(logR) == NSub(NExp(logR), One)

\* logI => Math.max(0, Math.exp(logI) - 1)
InflationOfLog(logI) == NMax(Zero, NSub(NExp(logI), One))

\* adjustedLogReturns.map(logR => Math.exp(logR) - 1)
ReturnsOfLogs(adjusted) == [i \in 1..Len(adjusted) |-> ReturnOfLog(adjusted[i])]

\* adjustedLogInflations.map(logI => Math.max(0, Math.exp(logI) - 1))
InflationsOfLogs(adjusted) == [i \in 1..Len(adjusted) |-> InflationOfLog(adjusted[i])]

\* lines 71-79, for the sampled log returns and the generator they left
ReturnsOfSample(targetLogReturn, years, sampled) ==
  [thrown |-> "",
   rates  |-> ReturnsOfLogs(AdjustedLogs(targetLogReturn, years, sampled.logs)),
   rng    |-> sampled.rng]

generateRandomizedReturns(annualReturn, years, rng, volatility) ==
  LET targetLogReturn == NLog(NAdd(One, annualReturn))
  IN  ReturnsOfSample(targetLogReturn, years,
                      SampleLogs(0, years, targetLogReturn, volatility, rng, <<>>))

\* lines 115-124, for the sampled log inflations and the generator they left
InflationsOfSample(targetLogInflation, years, sampled) ==
  [thrown |-> "",
   rates  |-> InflationsOfLogs(AdjustedLogs(targetLogInflation, years, sampled.logs)),
   rng    |-> sampled.rng]

\* a sampler without the shortcut of lines 95-97: a target of 0 is sampled
\* like any other
generateRandomizedInflationSampled(inflationRate, years, rng, volatility) ==
  InflationsOfSample(NLog(NAdd(One, inflationRate)), years,
                     SampleLogs(0, years, NLog(NAdd(One, inflationRate)),
                                volatility, rng, <<>>))

generateRandomizedInflation(inflationRate, years, rng, volatility) ==
  IF NEq(inflationRate, Zero)
  THEN \* new Array(years).fill(0): a negative length throws
       IF years < 0
       THEN [thrown |-> "RangeError", rates |-> <<>>, rng |-> rng]
       ELSE [thrown |-> "", rates |-> [i \in 1..years |-> Zero], rng |-> rng]
  ELSE LET targetLogInflation == NLog(NAdd(One, inflationRate))
       IN  InflationsOfSample(targetLogInflation, years,
                              SampleLogs(0, years, targetLogInflation, volatility, rng, <<>>))

(***************************************************************************)
(* runSimulation: one path.  simParams is a SimulationParams record, its   *)
(* money and rate fields numbers, years an integer.                        *)
(***************************************************************************)
\* a loop body that applies the growth to the starting balance and adds
\* the contribution afterwards
YearStepGrowthFirst(st, simParams, yearReturn, yearInflation) ==
  LET growth == NMul(st.balance, yearReturn)
      balance == NAdd(NAdd(st.balance, growth), st.contribution)
      cumulativeInflation == NMul(st.cumulativeInflation, NAdd(One, yearInflation))
      record == [year                |-> Len(st.yearlyData) + 1,
                 startingBalance     |-> st.balance,
                 contribution        |-> st.contribution,
                 returnRate          |-> yearReturn,
                 inflationRate       |-> yearInflation,
                 growth              |-> growth,
                 endingBalance       |-> balance,
                 cumulativeInflation |-> cumulativeInflation,
                 realEndingBalance   |-> NDiv(balance, cumulativeInflation)]
  IN  [yearlyData          |-> Append(st.yearlyData, record),
       balance             |-> balance,
       contribution        |-> NMul(st.contribution, NAdd(One, simParams.contributionGrowthRate)),
       totalContributions  |-> NAdd(st.totalContributions, st.contribution),
       totalGrowth         |-> NAdd(st.totalGrowth, growth),
       cumulativeInflation |-> cumulativeInflation]

\* one pass of the loop body of runSimulation, lines 144-176
YearStep(st, simParams, yearReturn, yearInflation) ==
  LET startingBalance == st.balance
      withContribution == NAdd(st.balance, st.contribution)
      growth == NMul(withContribution, yearReturn)
      balance == NAdd(withContribution, growth)
      cumulativeInflation == NMul(st.cumulativeInflation, NAdd(One, yearInflation))
      record == [year                |-> Len(st.yearlyData) + 1,
                 startingBalance     |-> startingBalance,
                 contribution        |-> st.contribution,
                 returnRate          |-> yearReturn,
                 inflationRate       |-> yearInflation,
                 growth              |-> growth,
                 endingBalance       |-> balance,
                 cumulativeInflation |-> cumulativeInflation,
                 realEndingBalance   |-> NDiv(balance, cumulativeInflation)]
  IN  [yearlyData          |-> Append(st.yearlyData, record),
       balance             |-> balance,
       contribution        |-> NMul(st.contribution, NAdd(One, simParams.contributionGrowthRate)),
       totalContributions  |-> NAdd(st.totalContributions, st.contribution),
       totalGrowth         |-> NAdd(st.totalGrowth, growth),
       cumulativeInflation |-> cumulativeInflation]

\* a loop that hands the sampled rates to the periods last to first
RECURSIVE YearLoopBackwards(_, _, _, _, _)
YearLoopBackwards(i, st, simParams, randomReturns, randomInflations) ==
  IF i >= simParams.years THEN st
  ELSE YearLoopBackwards(i + 1,
                         YearStep(st, simParams, randomReturns[simParams.years - i],
                                  randomInflations[simParams.years - i]),
                         simParams, randomReturns, randomInflations)

\* the loop `for (let i = 0; i < years; i++)` of runSimulation
RECURSIVE YearLoop(_, _, _, _, _)
YearLoop(i, st, simParams, randomReturns, randomInflations) ==
  IF i >= simParams.years THEN st
  ELSE YearLoop(i + 1, YearStep(st, simParams, randomReturns[i + 1], randomInflations[i + 1]),
                simParams, randomReturns, randomInflations)

\* locals whose contribution has already been increased once
PathStartRaised(simParams) ==
  [yearlyData          |-> <<>>,
   balance             |-> simParams.startingAssets,
   contribution        |-> NMul(simParams.initialContribution,
                                NAdd(One, simParams.contributionGrowthRate)),
   totalContributions  |-> Zero,
   totalGrowth         |-> Zero,
   cumulativeInflation |-> One]

\* the locals of runSimulation before the loop, lines 136-141
PathStart(simParams) ==
  [yearlyData          |-> <<>>,
   balance             |-> simParams.startingAssets,
   contribution        |-> simParams.initialContribution,
   totalContributions  |-> Zero,
   totalGrowth         |-> Zero,
   cumulativeInflation |-> One]

\* return { yearlyData, finalBalance: balance, totalContributions, totalGrowth },
\* and the generator as the path left it
PathReturn(end, random) ==
  [thrown             |-> "",
   yearlyData         |-> end.yearlyData,
   finalBalance       |-> end.balance,
   totalContributions |-> end.totalContributions,
   totalGrowth        |-> end.totalGrowth,
   randomAfter        |-> random]

\* lines 136-184, given the two rate sequences (and the generator left)
PathOfRates(simParams, randomReturns, inflations) ==
  IF inflations.thrown # ""
  THEN [thrown |-> inflations.thrown, randomAfter |-> inflations.rng]
  ELSE PathReturn(YearLoop(0, PathStart(simParams), simParams,
                           randomReturns, inflations.rates),
                  inflations.rng)

\* lines 134-184, given the returns (and the generator they left)
PathOfReturns(simParams, returns) ==
  PathOfRates(simParams, returns.rates,
              generateRandomizedInflation(simParams.inflationRate, simParams.years,
                                          returns.rng, InflationVolatility))

\* a path the other way round: the inflation sequence drawn first, the
\* return sequence second, from the same generator
PathOfBoth(simParams, returns, inflations) ==
  PathOfRates(simParams, returns.rates, [inflations EXCEPT !.rng = returns.rng])

PathOfInflations(simParams, inflations) ==
  PathOfBoth(simParams,
             generateRandomizedReturns(simParams.annualReturn, simParams.years,
                                       inflations.rng, ReturnVolatility),
             inflations)

runSimulationInflationFirst(simParams, random) ==
  PathOfInflations(simParams,
                   generateRandomizedInflation(simParams.inflationRate, simParams.years,
                                               random, InflationVolatility))

runSimulation(simParams, random) ==
  PathOfReturns(simParams,
                generateRandomizedReturns(simParams.annualReturn, simParams.years,
                                          random, ReturnVolatility))

\* the SimulationResult of a path that returned
PathResult(r) ==
  [yearlyData         |-> r.yearlyData,
   finalBalance       |-> r.finalBalance,
   totalContributions |-> r.totalContributions,
   totalGrowth        |-> r.totalGrowth]

(***************************************************************************)
(* runMonteCarloSimulation                                                 *)
(***************************************************************************)
\* Date.now(), read during the call being made
DateNow == clock'

\* a loop that creates one generator, from the base seed, and hands it
\* from path to path
RECURSIVE MonteCarloLoopSharing(_, _, _, _, _, _)
RECURSIVE MonteCarloPushSharing(_, _, _, _, _, _, _)
MonteCarloPushSharing(i, numSimulations, simParams, seed, results, generators, path) ==
  IF path.thrown # ""
  THEN [thrown |-> path.thrown, results |-> <<>>, generators |-> generators]
  ELSE MonteCarloLoopSharing(i + 1, numSimulations, simParams, seed,
                             Append(results, PathResult(path)),
                             Append(generators, path.randomAfter))

MonteCarloLoopSharing(i, numSimulations, simParams, seed, results, generators) ==
  IF i >= numSimulations
  THEN [thrown |-> "", results |-> results, generators |-> generators]
  ELSE MonteCarloPushSharing(i, numSimulations, simParams, seed, results, generators,
         runSimulation(simParams,
                       IF i = 0 THEN createSeededRandom(IntegerSeed(seed, 0))
                       ELSE generators[i]))

\* the loop of runMonteCarloSimulation, lines 197-202: a generator per path.
\* `seed` is a number, integer or not.  `generators` records, for each path,
\* the generator it ran on as the path left it (not part of the value
\* returned).
RECURSIVE MonteCarloLoop(_, _, _, _, _, _)
RECURSIVE MonteCarloPush(_, _, _, _, _, _, _)
\* results.push(path), and on to the next path; a throw ends the call
MonteCarloPush(i, numSimulations, simParams, seed, results, generators, path) ==
  IF path.thrown # ""
  THEN [thrown |-> path.thrown, results |-> <<>>, generators |-> generators]
  ELSE MonteCarloLoop(i + 1, numSimulations, simParams, seed,
                      Append(results, PathResult(path)),
                      Append(generators, path.randomAfter))

MonteCarloLoop(i, numSimulations, simParams, seed, results, generators) ==
  IF i >= numSimulations
  THEN [thrown |-> "", results |-> results, generators |-> generators]
  ELSE MonteCarloPush(i, numSimulations, simParams, seed, results, generators,
                      runSimulation(simParams, createSeededRandom(IntegerSeed(seed, i))))

\* a runner whose default is `seed || Date.now()`: a seed of 0 is taken for
\* an omitted one
runMonteCarloSimulationFalsy(simParams, numSimulations, seed) ==
  LET baseSeed == IF seed = <<>> \/ seed[1] = 0 THEN DateNow ELSE seed[1]
  IN  [baseSeed |-> baseSeed] @@
      MonteCarloLoop(0, numSimulations, simParams, Whole(baseSeed), <<>>, <<>>)

\* seed is <<s>> for the argument s, an integer, and <<>> for an omitted
\* argument, which takes the default `seed: number = Date.now()`
runMonteCarloSimulation(simParams, numSimulations, seed) ==
  LET baseSeed == IF seed = <<>> THEN DateNow ELSE seed[1]
  IN  [baseSeed |-> baseSeed] @@
      MonteCarloLoop(0, numSimulations, simParams, Whole(baseSeed), <<>>, <<>>)

(***************************************************************************)
(* calculatePercentiles                                                    *)
(***************************************************************************)
\* sim => useRealValues ? sim.yearlyData[year].realEndingBalance
\*                      : sim.yearlyData[year].endingBalance
YearEndBalances(simulations, year, useRealValues) ==
  [k \in 1..Len(simulations) |->
     IF useRealValues THEN simulations[k].yearlyData[year].realEndingBalance
                      ELSE simulations[k].yearlyData[year].endingBalance]

\* .sort((a, b) => a - b): the arrangements the sort may leave.  With a
\* consistent comparator that is the ascending one; a NaN among the values
\* makes the comparator inconsistent and the order implementation-defined.
SortOutcomes(xs) ==
  LET n == Len(xs)
      \* (a, b) => a - b, a NaN result counting as 0
      Compare(a, b) == IF IsNaN(NSub(a, b)) THEN 0 ELSE Sgn(NSub(a, b).v)
      arranged == {[i \in 1..n |-> xs[f[i]]] : f \in Permutations(1..n)}
  IN  IF \E i \in 1..n : IsNaN(xs[i])
      THEN arranged
      ELSE {ys \in arranged : \A i \in 1..n - 1 : Compare(ys[i], ys[i + 1]) <= 0}

\* 2^e mod 100
RECURSIVE Pow2Mod100(_)
Pow2Mod100(e) == IF e = 0 THEN 1 ELSE (2 * Pow2Mod100(e - 1)) % 100

\* Math.floor((percentile / 100) * length) in IEEE doubles, for integers
\* percentile and length.  When percentile * length is no multiple of 100
\* the rounding errors (about 2^-53) cannot move the product across an
\* integer.  When it is the multiple exact * 100: percentile / 100 is
\* rounded to 53 bits, m / 2^(52 + j) with m the integer nearest to
\* percentile * 2^(52 + j) / 100; r is the remainder left out.  If the
\* quotient was rounded down (0 < r < 50), the product falls short of
\* `exact` by r * length / (100 * 2^(52 + j)), and it is rounded to the
\* double below `exact` when that exceeds half the spacing of the doubles
\* below `exact` (2^(t - 52), halved again when exact = 2^t).
FloorOfShare(percentile, length) ==
  LET exact == (percentile * length) \div 100
      \* percentile / 100 lies in [2^-j, 2 * 2^-j)
      j     == CHOOSE j \in -24..7 :
                 IF j >= 0
                 THEN 100 <= percentile * Pow2(j) /\ percentile * Pow2(j) < 200
                 ELSE 100 * Pow2(-j) <= percentile /\ percentile < 200 * Pow2(-j)
      t     == Log2Floor(exact)
      r     == (percentile * Pow2Mod100(52 + j)) % 100
      half  == IF exact = Pow2(t) THEN 0 ELSE 1
  IN  IF percentile <= 0 \/ (percentile * length) % 100 # 0 \/ exact = 0 THEN exact
      ELSE IF 0 < r /\ r < 50 /\ 4 * r * length > 100 * Pow2(j + t + half)
      THEN exact - 1
      ELSE exact

\* Math.min(Math.floor((percentile / 100) * length), length - 1), 0-based
PercentileIndex(percentile, length) ==
  IF FloorOfShare(percentile, length) < length - 1
  THEN FloorOfShare(percentile, length)
  ELSE length - 1

\* the results calculatePercentiles may return: percentile -> one value per year
calculatePercentiles(simulations, percentiles, useRealValues) ==
  IF Len(simulations) = 0
  THEN {[thrown |-> "TypeError"]}
  ELSE LET years == Len(simulations[1].yearlyData)
           sorts == {s \in [1..years -> UNION {SortOutcomes(YearEndBalances(simulations, y, useRealValues)) : y \in 1..years}] :
                       \A y \in 1..years :
                         s[y] \in SortOutcomes(YearEndBalances(simulations, y, useRealValues))}
       IN  {[thrown |-> "",
             result |-> [p \in percentiles |->
                           [y \in 1..years |->
                              s[y][PercentileIndex(p, Len(simulations)) + 1]]]] : s \in sorts}

(***************************************************************************)
(* The client: inputs and calls                                            *)
(***************************************************************************)
MaxYears == 2
MaxPaths == 2
ScriptLen == 3

\* n / 1000 as a number
PerMille(n) == Fin((n * SCALE) \div 1000)

\* the defaults of the calculator, money in units of 100,000
BaseParams(years) ==
  [startingAssets         |-> PerMille(1000),
   annualReturn           |-> PerMille(70),
   initialContribution    |-> PerMille(200),
   contributionGrowthRate |-> PerMille(50),
   inflationRate          |-> PerMille(25),
   years                  |-> years]

ValidParams ==
  UNION {{BaseParams(y),
          [BaseParams(y) EXCEPT !.inflationRate = Zero],
          [BaseParams(y) EXCEPT !.inflationRate = PerMille(1)],
          [BaseParams(y) EXCEPT !.annualReturn = Zero],
          [BaseParams(y) EXCEPT !.startingAssets = Zero]} : y \in 1..MaxYears}

InvalidParams ==
  {BaseParams(0),
   BaseParams(-1),
   [BaseParams(-1) EXCEPT !.inflationRate = Zero],
   [BaseParams(MaxYears) EXCEPT !.startingAssets = PerMille(-1000)],
   [BaseParams(MaxYears) EXCEPT !.initialContribution = PerMille(-200)],
   [BaseParams(MaxYears) EXCEPT !.annualReturn = PerMille(-1000)]}

ParamSet == ValidParams \cup InvalidParams

\* -1831565813 is the seed whose first draw is 0 (its state steps to 0), and
\* -1199730143 the seed whose third draw is 0
SeedSet == {42, 43, -1831565814, -1831565813, -1199730143}

\* the generators of SeedSet and the scripts of the values 0, 2^-32, about
\* 0.6 and 1 - 2^-32
RandomSet ==
  {createSeededRandom(s) : s \in SeedSet}
    \cup {ScriptedRandom(d) :
            d \in [1..ScriptLen -> {<<0, 0>>, <<0, 1>>, <<39393, 61308>>, <<65535, 65535>>}]}

PercentileSets == {{10, 25, 50, 75, 90}, {0, 50, 100}}

NoCall == [op |-> "none"]

\* the page is not open
Unmounted == [phase |-> "unmounted"]

Init ==
  /\ params \in ParamSet
  /\ clock = 0
  /\ prev = NoCall
  /\ last = NoCall
  /\ bands = NoCall
  /\ ui = Unmounted

\* what the clock may show during a call.  From one call to the next the
\* wall clock moves by some milliseconds, whether the call reads it or not:
\* two calls can fall into one millisecond, and the clock can be set back.
\* The default `seed: number = Date.now()` reads it when the argument is
\* omitted, and then only
Readings == IF last # NoCall THEN {clock + step : step \in {-1, 0, 1, 2}} ELSE {clock}

\* runMonteCarloSimulation(params, numSimulations, seed), at most twice
MonteCarlo(numSimulations, seed) ==
  /\ last.op \in {"none", "runMonteCarloSimulation"}
  /\ prev = NoCall
  /\ bands = NoCall
  /\ clock' \in Readings
  /\ last' = [op |-> "runMonteCarloSimulation", numSimulations |-> numSimulations,
              seed |-> seed] @@ runMonteCarloSimulation(params, numSimulations, seed)
  /\ prev' = last
  /\ UNCHANGED <<params, bands, ui>>

\* runSimulation(params, random), once
PathRun(random) ==
  /\ last = NoCall
  /\ last' = [op |-> "runSimulation", random |-> random] @@ runSimulation(params, random)
  /\ UNCHANGED <<params, clock, prev, bands, ui>>

\* calculatePercentiles(results, percentiles, useRealValues) on what the
\* one call of runMonteCarloSimulation returned
Percentiles(percentiles, useRealValues) ==
  /\ last.op = "runMonteCarloSimulation"
  /\ prev = NoCall
  /\ last.thrown = ""
  /\ bands = NoCall
  /\ \E r \in calculatePercentiles(last.results, percentiles, useRealValues) :
       bands' = [op |-> "calculatePercentiles", percentiles |-> percentiles,
                 useRealValues |-> useRealValues] @@ r
  /\ UNCHANGED <<params, clock, prev, last, ui>>

\* the seed argument: omitted, a seed of SeedSet, or 0
SeedArgs == {<<>>} \cup {<<s>> : s \in SeedSet \cup {0}}

NextMC == \E n \in 1..MaxPaths, seed \in SeedArgs : MonteCarlo(n, seed)

NextPath == \E random \in RandomSet : PathRun(random)

NextPct ==
  \/ \E n \in 0..MaxPaths, seed \in SeedArgs : last = NoCall /\ MonteCarlo(n, seed)
  \/ \E ps \in PercentileSets, useReal \in BOOLEAN : Percentiles(ps, useReal)

Next == NextMC \/ NextPath \/ NextPct

\* a client that only calls runMonteCarloSimulation
SpecMC == Init /\ [][NextMC]_vars

\* a client that only calls runSimulation
SpecPath == Init /\ [][NextPath]_vars

\* a client that runs one Monte Carlo and aggregates it
SpecPct == Init /\ [][NextPct]_vars

Spec == Init /\ [][Next]_vars

(***************************************************************************)
(* createSeededRandom on its own: two generators created from one seed,    *)
(* each called up to MaxCalls times.  A handle records the generator and   *)
(* the values it has returned so far.                                      *)
(***************************************************************************)
MaxCalls == 3

\* seeds beyond 32 bits: a Date.now(), -2^32, -2^32 - 5, 2^32 + the seed
\* whose first draw is 0, and two beyond 53 bits, 2^53 + 2 and -2^54 + 4,
\* whose sum with 0x6D2B79F5 is rounded
WideSeeds ==
  {<<395, 12345, 6789>>, <<-1, 0, 0>>, <<-2, 65535, 65531>>, <<1, 37588, 34315>>,
   <<2097152, 0, 2>>, <<-4194304, 0, 4>>}

GeneratorSet ==
  {createSeededRandom(s) : s \in SeedSet} \cup {createSeededRandomWide(d) : d \in WideSeeds}

\* const a = createSeededRandom(seed), b = createSeededRandom(seed)
CreateGenerators(rng) ==
  /\ last = NoCall /\ prev = NoCall
  /\ last' = [op |-> "createSeededRandom", start |-> rng, rng |-> rng, values |-> <<>>]
  /\ prev' = last'
  /\ UNCHANGED <<params, clock, bands, ui>>

\* one call of the closure
Called(handle) ==
  [handle EXCEPT !.rng = DrawNext(handle.rng),
                 !.values = Append(handle.values, DrawValue(handle.rng))]

\* a()
CallRandom ==
  /\ last.op = "createSeededRandom" /\ Len(last.values) < MaxCalls
  /\ last' = Called(last)
  /\ UNCHANGED <<params, clock, prev, bands, ui>>

\* b()
CallRandomOther ==
  /\ prev.op = "createSeededRandom" /\ Len(prev.values) < MaxCalls
  /\ prev' = Called(prev)
  /\ UNCHANGED <<params, clock, last, bands, ui>>

NextRandom ==
  \/ \E rng \in GeneratorSet : CreateGenerators(rng)
  \/ CallRandom
  \/ CallRandomOther

SpecRandom == Init /\ [][NextRandom]_vars

(***************************************************************************)
(* FIRECalculator (src/src/components/FIRECalculator.tsx).  ui.state is    *)
(* the component's React state; ui.shown is the state as of the last       *)
(* render, which is what the button's `disabled`, the sliders' `value` and *)
(* the closures of the handlers and effects read; ui.timers are the        *)
(* pending setTimeout callbacks, oldest first (all have the delay 100, so  *)
(* they run in that order), each with the seed and the params its closure  *)
(* holds and with what it computes from them; ui.url is the query last     *)
(* written by router.replace, ui.opened the query the page was opened      *)
(* with, ui.edits the number of parameter edits so far.  An absent value   *)
(* (null, a missing query parameter) is <<>>, a present one <<v>>.  The    *)
(* value of a query parameter is a string, here the sequence of its        *)
(* characters, written by toString() and read by Number().  The params of  *)
(* the page and the seed are doubles, as Number() returns them.            *)
(*                                                                         *)
(* ui.phase is "committed" after the first render, whose effects are to    *)
(* run, "rendered" after a later render of which the URL effect is to run, *)
(* and "mounted" when no effect is pending.                                *)
(*                                                                         *)
(* A click, a key, a pointer press and an input are discrete events:       *)
(* React renders their updates, and all pending ones, before the next      *)
(* event is handled, running the pending effects first and the effects of  *)
(* that render with it.  Updates made in an effect, in a timer or in a     *)
(* continuous event (wheel, pointer move) are rendered in a later task,    *)
(* and the effects of that render run in a task after it: timers and       *)
(* events can precede either.  The 100 paths of line 95 are MaxPaths paths *)
(* here, the 30 years MaxYears.  The simulation takes the params in its    *)
(* fixed point.                                                            *)
(***************************************************************************)
\* the decimal digits as characters
Digits == <<"0", "1", "2", "3", "4", "5", "6", "7", "8", "9">>

IsDigit(ch) == \E d \in 0..9 : Digits[d + 1] = ch

DigitValue(ch) == CHOOSE d \in 0..9 : Digits[d + 1] = ch

\* string without the white space around it (StrWhiteSpaceChar, as far as
\* the characters of the model go)
Trimmed(string) ==
  LET Inner(inner) ==
        IF inner = {} THEN <<>>
        ELSE SubSeq(string, CHOOSE i \in inner : \A j \in inner : i <= j,
                    CHOOSE i \in inner : \A j \in inner : i >= j)
  IN  Inner({i \in 1..Len(string) : string[i] \notin {" ", "\t", "\n", "\r", "\f"}})

\* string without the zeros it starts with
StripZeros(string) ==
  IF \A i \in 1..Len(string) : string[i] = "0" THEN <<>>
  ELSE SubSeq(string, CHOOSE i \in 1..Len(string) :
                        string[i] # "0" /\ \A j \in 1..(i - 1) : string[j] = "0",
              Len(string))

\* the value of a digit to a radix up to 16 (16 for a character that is none)
RadixDigitValue(ch) ==
  LET LowerHex == <<"a", "b", "c", "d", "e", "f">>
      UpperHex == <<"A", "B", "C", "D", "E", "F">>
  IN  IF IsDigit(ch) THEN DigitValue(ch)
      ELSE IF \E d \in 1..6 : LowerHex[d] = ch
      THEN 9 + (CHOOSE d \in 1..6 : LowerHex[d] = ch)
      ELSE IF \E d \in 1..6 : UpperHex[d] = ch
      THEN 9 + (CHOOSE d \in 1..6 : UpperHex[d] = ch)
      ELSE 16

\* left * radix^places + right
BigJoined(left, right, radix, places) ==
  IF left = <<>> THEN right
  ELSE BigSum(BigPow(left, radix, 15 \div (Log2Floor(radix) + 1), places), right)

\* the value of the digits lo..hi of string, worked in halves
RECURSIVE BigValue(_, _, _, _)
BigValue(string, radix, lo, hi) ==
  IF lo > hi THEN <<>>
  ELSE IF lo = hi THEN Big(RadixDigitValue(string[lo]))
  ELSE BigJoined(BigValue(string, radix, lo, (lo + hi) \div 2),
                 BigValue(string, radix, ((lo + hi) \div 2) + 1, hi),
                 radix, hi - ((lo + hi) \div 2))

\* the value of digits to a radix of 2, 8 or 16: one of more than 1024
\* bits is beyond the doubles
RadixValue(digits, radix) ==
  IF Len(digits) * Log2Floor(radix) > 1100 THEN Infinity(1)
  ELSE Rounded(1, BigValue(digits, radix, 1, Len(digits)), TRUE, 0)

\* the digits after 0x, 0o or 0b
RadixLiteral(string, radix) ==
  IF string = <<>> \/ \E i \in 1..Len(string) : RadixDigitValue(string[i]) >= radix
  THEN DoubleNaN
  ELSE RadixValue(StripZeros(string), radix)

\* the mantissa of a decimal literal: digits with at most one point and at
\* least one digit (e or E, a sign or none, and digits may follow it)
IsUnsigned(string) ==
  /\ \E i \in 1..Len(string) : IsDigit(string[i])
  /\ \A i \in 1..Len(string) : IsDigit(string[i]) \/ string[i] = "."
  /\ Cardinality({i \in 1..Len(string) : string[i] = "."}) <= 1

\* the value of the digits of an exponent, MaxExponent for a value beyond it
MaxExponent == 100000

ExponentValue(digits) ==
  IF Len(digits) > 5 THEN MaxExponent ELSE Small(BigValue(digits, 10, 1, Len(digits)))

DigitsValue(string) == ExponentValue(StripZeros(string))

\* the double nearest to value / 10^places * 10^point
DecimalScaled(value, places, point) ==
  IF value = <<>> THEN Double(1, <<>>, 0)
  ELSE IF point >= places THEN Rounded(1, BigPow(value, 10, 4, point - places), TRUE, 0)
  ELSE Ratio(1, value, BigPow(<<1>>, 10, 4, places - point))

DecimalKept(kept, point) == DecimalScaled(BigValue(kept, 10, 1, Len(kept)), Len(kept), point)

\* the double nearest to 0.d1 d2 ... * 10^point for the digits d1 d2 ...,
\* d1 not 0.  Every double is below 10^309, and a number below 10^-324 is
\* nearest to 0; no double and no middle between two of them has more than
\* 800 digits, so that the digits after those count only as being 0 or not
DecimalValue(digits, point) ==
  IF point > 309 THEN Infinity(1)
  ELSE IF point < -323 THEN Double(1, <<>>, 0)
  ELSE DecimalKept(IF Len(digits) <= 800 THEN digits
                   ELSE SubSeq(digits, 1, 800)
                        \o <<IF \A i \in 801..Len(digits) : digits[i] = "0" THEN "0" ELSE "1">>,
                   point)

\* the exponent without its sign
ExponentBody(exponent) ==
  IF exponent # <<>> /\ Head(exponent) \in {"+", "-"} THEN Tail(exponent) ELSE exponent

\* the value of the digits of a mantissa, `stripped` without the zeros they
\* start with, for the point after the first `point` of them
MantissaValue(digits, stripped, point) ==
  IF stripped = <<>> THEN Double(1, <<>>, 0)
  ELSE DecimalValue(stripped, point - (Len(digits) - Len(stripped)))

\* the value of mantissa and exponent, body the exponent without its sign,
\* marked iff there is an e or E
LiteralParts(mantissa, exponent, body, marked) ==
  IF ~IsUnsigned(mantissa) THEN DoubleNaN
  ELSE IF marked /\ (body = <<>> \/ \E i \in 1..Len(body) : ~IsDigit(body[i]))
  THEN DoubleNaN
  ELSE MantissaValue(SelectSeq(mantissa, IsDigit), StripZeros(SelectSeq(mantissa, IsDigit)),
                     (IF \E i \in 1..Len(mantissa) : mantissa[i] = "."
                      THEN (CHOOSE i \in 1..Len(mantissa) : mantissa[i] = ".") - 1
                      ELSE Len(mantissa))
                       + (IF ~marked THEN 0
                          ELSE IF Head(exponent) = "-" THEN -DigitsValue(body)
                          ELSE DigitsValue(body)))

\* mark is the place of the first e or E, or one past the end
LiteralMarked(string, mark) ==
  LiteralParts(SubSeq(string, 1, mark - 1), SubSeq(string, mark + 1, Len(string)),
               ExponentBody(SubSeq(string, mark + 1, Len(string))), mark <= Len(string))

\* StrUnsignedDecimalLiteral: Infinity, or digits with a point and an
\* exponent
UnsignedLiteral(string) ==
  IF string = <<"I", "n", "f", "i", "n", "i", "t", "y">> THEN Infinity(1)
  ELSE LiteralMarked(string,
                     IF \E i \in 1..Len(string) : string[i] \in {"e", "E"}
                     THEN CHOOSE i \in 1..Len(string) :
                            string[i] \in {"e", "E"}
                              /\ \A k \in 1..(i - 1) : string[k] \notin {"e", "E"}
                     ELSE Len(string) + 1)

\* the radix of the letter of 0x, 0o and 0b (0 for any other one)
RadixOf(ch) == IF ch \in {"x", "X"} THEN 16
               ELSE IF ch \in {"o", "O"} THEN 8
               ELSE IF ch \in {"b", "B"} THEN 2
               ELSE 0

SignedValue(sign, value) == IF sign = "-" THEN Minus(value) ELSE value

\* StringNumericLiteral: nothing is 0; a literal to a radix has no sign
NumericLiteral(literal) ==
  IF literal = <<>> THEN Double(1, <<>>, 0)
  ELSE IF Len(literal) >= 2 /\ literal[1] = "0" /\ RadixOf(literal[2]) # 0
  THEN RadixLiteral(SubSeq(literal, 3, Len(literal)), RadixOf(literal[2]))
  ELSE SignedValue(Head(literal),
                   UnsignedLiteral(IF Head(literal) \in {"+", "-"} THEN Tail(literal)
                                   ELSE literal))

\* StringToNumber, what Number(string) returns (the sign of a zero is not
\* held: -0 is written "0" and equals 0)
StringToNumber(string) == NumericLiteral(Trimmed(string))

\* the decimal digits of a, as characters, 8 at a time (zeros may come
\* first)
RECURSIVE BigDigits(_)

EightDigits(division) ==
  BigDigits(division[1])
    \o [i \in 1..8 |-> Digits[((Small(division[2]) \div (10 ^ (8 - i))) % 10) + 1]]

BigDigits(a) == IF a = <<>> THEN <<>> ELSE EightDigits(BigDivision(a, Big(10 ^ 8)))

\* the first k digits
LowerDigits(leading, k) == SubSeq(leading, 1, k)

\* the first k digits increased by one in the last place, `place` the last
\* one that is not 9
RaisedDigits(leading, k, place) ==
  SubSeq(leading, 1, place - 1) \o <<Digits[DigitValue(leading[place]) + 2]>>
    \o [i \in 1..(k - place) |-> "0"]

\* the first k digits increased by one in the last place (a digit more
\* when all are 9)
UpperDigits(leading, k) ==
  IF \A i \in 1..k : leading[i] = "9" THEN <<"1">> \o [i \in 1..k |-> "0"]
  ELSE RaisedDigits(leading, k, CHOOSE i \in 1..k :
                                  leading[i] # "9" /\ \A j \in (i + 1)..k : leading[j] = "9")

\* the digits after the first k are above the middle of the last place (or
\* in it, and the last digit is odd)
AboveMiddle(leading, exact, k) ==
  \/ DigitValue(leading[k + 1]) > 5
  \/ /\ DigitValue(leading[k + 1]) = 5
     /\ \/ \E i \in (k + 2)..Len(leading) : leading[i] # "0"
        \/ ~exact
        \/ DigitValue(leading[k]) % 2 = 1

\* the digits taken of the two, or none: reads[digits] iff digits read
\* back as the number
TakenDigits(k, near, far, reads) ==
  IF k = 17 \/ reads[near] THEN near
  ELSE IF reads[far] THEN far
  ELSE <<>>

\* of the two numbers of k digits next to x the nearer one is taken when
\* it reads back as x, else the other one
NearDigits(x, point, k, near, far) ==
  TakenDigits(k, near, far,
              [digits \in {near, far} |->
                 DecimalValue(digits, point + (Len(digits) - k)) = x])

PickedDigits(x, leading, exact, point, k, above) ==
  NearDigits(x, point, k,
             IF above THEN UpperDigits(leading, k) ELSE LowerDigits(leading, k),
             IF above THEN LowerDigits(leading, k) ELSE UpperDigits(leading, k))

RECURSIVE FewestDigits(_, _, _, _, _)

FoundDigits(found, x, leading, exact, point, k) ==
  IF found # <<>> THEN <<found, point + (Len(found) - k)>>
  ELSE FewestDigits(x, leading, exact, point, k + 1)

\* the fewest digits, k or more, that read back as x
FewestDigits(x, leading, exact, point, k) ==
  FoundDigits(PickedDigits(x, leading, exact, point, k, AboveMiddle(leading, exact, k)),
              x, leading, exact, point, k)

\* the fewest digits that read back as x > 0, and the place of the point
\* before them.  x is 0.d1 d2 ... * 10^point for `leading`, its first 18 or
\* 19 digits d, and if `exact`, no more.  When k digits can be read back as
\* x, so can more, and 17 always can
Shortest(x, leading, exact, point) == FewestDigits(x, leading, exact, point, 1)

Zeros(count) == [i \in 1..count |-> "0"]

\* the digits of the exponent of the scientific notation
ExponentDigits(value) ==
  (IF value >= 100 THEN <<Digits[(value \div 100) + 1]>> ELSE <<>>)
    \o (IF value >= 10 THEN <<Digits[((value \div 10) % 10) + 1]>> ELSE <<>>)
    \o <<Digits[(value % 10) + 1]>>

\* the k digits, with the point before digit n + 1: in fixed notation from
\* 10^-6 to 10^21
Notation(digits, k, n) ==
  IF k <= n /\ n <= 21 THEN digits \o Zeros(n - k)
  ELSE IF 0 < n /\ n <= 21 THEN SubSeq(digits, 1, n) \o <<".">> \o SubSeq(digits, n + 1, k)
  ELSE IF -6 < n /\ n <= 0 THEN <<"0", ".">> \o Zeros(-n) \o digits
  ELSE <<digits[1]>> \o (IF k > 1 THEN <<".">> \o Tail(digits) ELSE <<>>)
       \o <<"e", IF n > 0 THEN "+" ELSE "-">>
       \o ExponentDigits(IF n > 0 THEN n - 1 ELSE 1 - n)

NotationOf(digits, n) == Notation(digits, Len(digits), n)

\* the digits found, without the zeros at their end
ShortNotation(found, n) ==
  NotationOf(SubSeq(found, 1, CHOOSE i \in 1..Len(found) :
                                found[i] # "0" /\ \A j \in (i + 1)..Len(found) : found[j] = "0"),
             n)

ShortestNotation(shortest) == ShortNotation(shortest[1], shortest[2])

LeadingNotation(x, leading, exact, first) ==
  ShortestNotation(Shortest([x EXCEPT !.s = 1], leading, exact, (Len(leading) - 18) + first))

\* for x * 10^(18 - first), a number of 18 or 19 digits and a fraction
DividedNotation(x, division, first) ==
  LeadingNotation(x, StripZeros(BigDigits(division[1])), division[2] = <<>>, first)

\* for x < 10^first and 10^first <= 10 * x
PositiveNotation(x, first) ==
  DividedNotation(x,
                  BigDivision(BigShl(BigPow(x.m, 10, 4, IF first < 18 THEN 18 - first ELSE 0),
                                     IF x.e > 0 THEN x.e ELSE 0),
                              BigShl(BigPow(<<1>>, 10, 4, IF first > 18 THEN first - 18 ELSE 0),
                                     IF x.e < 0 THEN -x.e ELSE 0)),
                  first)

\* Number::toString, what x.toString() returns: the fewest digits that read
\* back as x
NumberToString(x) ==
  IF x.c = "nan" THEN <<"N", "a", "N">>
  ELSE (IF x.s < 0 THEN <<"-">> ELSE <<>>)
       \o (IF x.c = "inf" THEN <<"I", "n", "f", "i", "n", "i", "t", "y">>
           ELSE IF x.m = <<>> THEN <<"0">>
           ELSE PositiveNotation(x, ((((BigBits(x.m) + x.e) - 1) * 30103) \div 100000) + 1))

\* queries the page is opened with: with or without a seed (an integer, a
\* fraction, no number), a view and an inflationRate
QuerySet ==
  [startingAssets : {<<>>}, annualReturn : {<<>>}, initialContribution : {<<>>},
   contributionGrowthRate : {<<>>}, inflationRate : {<<>>, <<<<"0">>>>},
   view : {<<>>, <<"nominal">>},
   seed : {<<>>, <<<<"4", "2">>>>, <<<<"0", ".", "9", "9", "9", "9", "9">>>>,
           <<<<"a", "b", "c">>>>}]

\* the strings of the parameters of these queries
QueryStrings ==
  UNION {{query[key][1] : key \in {k \in DOMAIN query : k # "view" /\ query[k] # <<>>}} :
           query \in QuerySet}

\* Math.floor(Math.random() * 1000000)
NewSeeds == {Whole(7), Whole(43)}

\* DEFAULT_PARAMS, lines 19-26: the defaults of the calculator as the
\* numbers of the page
DEFAULT_PARAMS ==
  [key \in {"startingAssets", "annualReturn", "initialContribution",
            "contributionGrowthRate", "inflationRate"}
     |-> Widened(BaseParams(MaxYears)[key])] @@ [years |-> MaxYears]

\* the sliders (lines 164-171, 197-204, 215-222) are annualReturn,
\* contributionGrowthRate and inflationRate: all from 0, in steps of 0.001
SliderKeys == {"annualReturn", "contributionGrowthRate", "inflationRate"}

SliderMax(key) ==
  Widened(PerMille(IF key = "annualReturn" THEN 150
                   ELSE IF key = "contributionGrowthRate" THEN 100
                   ELSE 60))

\* the values a slider is moved to by a key, a click on its track or a drag
SliderValues == {Whole(0), Widened(PerMille(25))}

\* delta of slider.tsx, line 21: step for a notch up (deltaY < 0), -step
\* for a notch down
WheelDeltas == {Widened(PerMille(step)) : step \in {1, -1}}

\* what is typed into the inputs of type number, startingAssets and
\* initialContribution (lines 147-153, 180-186): e.target.value is a number
\* as the browser writes it, or empty
TypedValues == {<<>>, <<"2", "5", "e", "-", "1">>}

\* the number of edits of a behaviour
MaxEdits == 1

\* the number of calculations of a behaviour
MaxCalculations == 3

\* newValue of slider.tsx, line 22:
\* Math.min(max, Math.max(min, currentValue + delta)), NaN if one is NaN
Wheeled(currentValue, key, delta) ==
  LET MathMax(a, b) == IF a.c = "nan" \/ b.c = "nan" THEN DoubleNaN
                       ELSE IF Less(a, b) THEN b ELSE a
      MathMin(a, b) == IF a.c = "nan" \/ b.c = "nan" THEN DoubleNaN
                       ELSE IF Less(b, a) THEN b ELSE a
  IN  MathMin(SliderMax(key), MathMax(Whole(0), Plus(currentValue, delta)))

\* Numbers a page of the model can hold: those it starts with, those of the
\* events, and what up to MaxEdits notches of the wheel make of them
RECURSIVE Notched(_, _)
Notched(numbers, notches) ==
  IF notches = 0 THEN numbers
  ELSE Notched(numbers \cup {Wheeled(number, key, delta) :
                              number \in numbers, key \in SliderKeys, delta \in WheelDeltas},
              notches - 1)

Held ==
  Notched({DEFAULT_PARAMS[key] : key \in DOMAIN DEFAULT_PARAMS \ {"years"}}
           \cup {StringToNumber(string) : string \in QueryStrings \cup TypedValues}
           \cup NewSeeds \cup SliderValues,
         MaxEdits)

\* NumberToString and StringToNumber take thousands of steps: for the
\* numbers and the strings of the pages of the model they are worked out
\* once
Written == [number \in Held |-> NumberToString(number)]

Parsed ==
  [string \in {Written[number] : number \in Held}
                \cup QueryStrings \cup TypedValues
     |-> StringToNumber(string)]

\* table[key] if the table has the key, else the value
Lookup(table, key, value) == IF key \in DOMAIN table THEN table[key] ELSE value

\* x.toString() of lines 70-74 and 77
toString(x) == Lookup(Written, x, NumberToString(x))

\* Number(string) of lines 38-50 and 64
Number(string) == Lookup(Parsed, string, StringToNumber(string))

\* what the query gives, lines 35-50 and 62-64: Number(x) for each
\* parameter x that is there and not empty (null and the empty string are
\* falsy)
FromQuery(query) ==
  [key \in {k \in DOMAIN query \ {"view"} : query[k] # <<>> /\ query[k][1] # <<>>}
     |-> Number(query[key][1])]

\* the useState initialisers, lines 34-65: { ...DEFAULT_PARAMS, ...urlParams },
\* and the seed or null
FirstState(query, read) ==
  [params        |-> [key \in DOMAIN read \ {"seed"} |-> read[key]] @@ DEFAULT_PARAMS,
   simulations   |-> <<>>,
   isCalculating |-> FALSE,
   showReal      |-> query.view # <<"nominal">>,
   seed          |-> IF "seed" \in DOMAIN read THEN <<read.seed>> ELSE <<>>]

FirstRender(query) == FirstState(query, FromQuery(query))

\* the query the URL effect writes, lines 68-81
QueryOf(state) ==
  LET Query(string) ==
        [startingAssets         |-> <<string[state.params.startingAssets]>>,
         annualReturn           |-> <<string[state.params.annualReturn]>>,
         initialContribution    |-> <<string[state.params.initialContribution]>>,
         contributionGrowthRate |-> <<string[state.params.contributionGrowthRate]>>,
         inflationRate          |-> <<string[state.params.inflationRate]>>,
         view                   |-> <<IF state.showReal THEN "real" ELSE "nominal">>,
         seed                   |-> IF state.seed = <<>> THEN <<>>
                                    ELSE <<string[state.seed[1]]>>]
  IN  Query([number \in {state.params[key] : key \in DOMAIN state.params \ {"years"}}
                          \cup {state.seed[i] : i \in DOMAIN state.seed}
               |-> toString(number)])

\* the params of the page as the arithmetic of the simulation takes them
FixedParams(pageParams) ==
  [startingAssets         |-> Fx(pageParams.startingAssets),
   annualReturn           |-> Fx(pageParams.annualReturn),
   initialContribution    |-> Fx(pageParams.initialContribution),
   contributionGrowthRate |-> Fx(pageParams.contributionGrowthRate),
   inflationRate          |-> Fx(pageParams.inflationRate),
   years                  |-> pageParams.years]

\* lines 95-97: runMonteCarloSimulation(params, 100, simulationSeed), the
\* seed given, and the two calls of calculatePercentiles
Percentiled(results) ==
  [results |-> results,
   nominal |-> calculatePercentiles(results.results, {10, 25, 50, 75, 90}, FALSE),
   real    |-> calculatePercentiles(results.results, {10, 25, 50, 75, 90}, TRUE)]

SimulationsOf(simParams, simulationSeed) ==
  Percentiled(MonteCarloLoop(0, MaxPaths, FixedParams(simParams), simulationSeed,
                             <<>>, <<>>))

\* runSimulationWithSeed, lines 92-94 and 106: setIsCalculating(true) and
\* setTimeout of a callback that holds simulationSeed and the params of the
\* render the caller belongs to; `simulations` is what the callback will
\* compute from the two.  The calculations of a page are numbered in the
\* order they are triggered in: u.triggered counts them, and `order` is
\* the number of this one (a record of the model, not of the page)
runSimulationWithSeed(u, simulationSeed, simulations) ==
  [u EXCEPT !.state.isCalculating = TRUE,
            !.triggered = @ + 1,
            !.timers = Append(@, [seed |-> simulationSeed, params |-> u.shown.params,
                                  simulations |-> simulations,
                                  order |-> u.triggered + 1])]

\* handleCalculate, lines 108-113
handleCalculate(u, newSeed) ==
  runSimulationWithSeed([u EXCEPT !.state.seed = <<newSeed>>], newSeed,
                        SimulationsOf(u.shown.params, newSeed))

\* the URL effect of the last render, lines 68-82
URLEffectOf(u) == [u EXCEPT !.phase = "mounted", !.url = QueryOf(u.shown)]

\* the auto-run, lines 85-90, an effect of the first render only: it reads
\* seed and simulations of that render
AutoRunOf(u) ==
  IF u.shown.seed # <<>> /\ u.shown.simulations = <<>>
  THEN runSimulationWithSeed([u EXCEPT !.auto = <<>>], u.shown.seed[1], u.auto[1])
  ELSE [u EXCEPT !.auto = <<>>]

\* a render of the current state is committed: the URL effect is to run
\* after it when params, showReal or seed are not those of the render
\* before (line 82)
Rendered(u) ==
  [u EXCEPT !.shown = u.state,
            !.phase = IF <<u.state.params, u.state.showReal, u.state.seed>>
                           # <<u.shown.params, u.shown.showReal, u.shown.seed>>
                      THEN "rendered" ELSE @]

\* the effects that are pending have run, in the order of the source: of
\* the first render the URL effect, then the auto-run; of a later render
\* the URL effect
EffectsOf(u) ==
  LET Then(written) == IF u.phase = "committed" THEN AutoRunOf(written) ELSE written
  IN  IF u.phase = "mounted" THEN u ELSE Then(URLEffectOf(u))

\* a discrete event (click, key, pointer down, input) has been handled:
\* React runs the pending effects, renders, and runs the effects of that
\* render, before anything else
Flushed(u) == EffectsOf(Rendered(EffectsOf(u)))

\* updateParam, lines 115-117: setParams(prev => ({...prev, [key]: value}))
updateParam(u, key, value) == [u EXCEPT !.state.params = [@ EXCEPT ![key] = value]]

\* handleWheel of slider.tsx, lines 16-27, for the value of the last
\* render: newValue is reported if newValue !== currentValue (NaN !== NaN)
handleWheel(u, key, delta) ==
  LET Reported(currentValue, newValue) ==
        IF newValue # currentValue \/ currentValue.c = "nan"
        THEN updateParam(u, key, newValue)
        ELSE u
      Turned(currentValue) == Reported(currentValue, Wheeled(currentValue, key, delta))
  IN  Turned(u.shown.params[key])

\* the page is opened on a query: the first render.  ui.auto is what the
\* callback of the auto-run will compute
Opened(query, first) ==
  [phase |-> "committed", opened |-> query, state |-> first, shown |-> first,
   timers |-> <<>>, url |-> query, edits |-> 0, triggered |-> 0,
   auto |-> IF first.seed = <<>> THEN <<>>
            ELSE <<SimulationsOf(first.params, first.seed[1])>>]

Mount(query) ==
  /\ ui = Unmounted /\ last = NoCall /\ prev = NoCall
  /\ \E first \in {FirstRender(query)} :
       /\ params = FixedParams(first.params)
       /\ ui' = Opened(query, first)
  /\ UNCHANGED <<params, clock, prev, last, bands>>

\* the effects of the first render run
MountEffects ==
  /\ ui.phase = "committed"
  /\ ui' = EffectsOf(ui)
  /\ UNCHANGED <<params, clock, prev, last, bands>>

\* React renders the updates made outside a discrete event, the effects of
\* the render before having run
Render ==
  /\ ui.phase = "mounted" /\ ui.shown # ui.state
  /\ ui' = Rendered(ui)
  /\ UNCHANGED <<params, clock, prev, last, bands>>

\* the URL effect of such a render runs, in a task of its own
URLEffect ==
  /\ ui.phase = "rendered"
  /\ ui' = EffectsOf(ui)
  /\ UNCHANGED <<params, clock, prev, last, bands>>

\* a click on the Calculate button (lines 228-235), enabled when the last
\* render had isCalculating false
Click(newSeed) ==
  /\ ui.phase \in {"committed", "mounted", "rendered"}
  /\ ui.triggered < MaxCalculations
  /\ ~ui.shown.isCalculating
  /\ ui' = Flushed(handleCalculate(ui, newSeed))
  /\ UNCHANGED <<params, clock, prev, last, bands>>

\* setSimulations({results, nominalPercentiles, realPercentiles}) and
\* setIsCalculating(false), lines 99-104; seed, params and order record
\* what the results were computed with, and by which calculation
Completed(u, timer, results, nominal, real) ==
  [u EXCEPT !.timers = Tail(@),
            !.state.isCalculating = FALSE,
            !.state.simulations = <<[seed               |-> timer.seed,
                                     params             |-> timer.params,
                                     order              |-> timer.order,
                                     results            |-> results.results,
                                     nominalPercentiles |-> nominal.result,
                                     realPercentiles    |-> real.result]>>]

\* lines 95-104 for one timer
TimerCallback(u, timer) ==
  {Completed(u, timer, timer.simulations.results, nominal, real) :
     nominal \in timer.simulations.nominal, real \in timer.simulations.real}

\* the oldest pending timer fires, all being set with the delay of 100 ms:
\* the callback of lines 94-105
TimerFire ==
  /\ ui.phase \in {"committed", "mounted", "rendered"}
  /\ ui.timers # <<>>
  /\ ui' \in TimerCallback(ui, Head(ui.timers))
  /\ UNCHANGED <<params, clock, prev, last, bands>>

\* without edits no render outside a discrete event changes params,
\* showReal or seed: no URL effect is left to run in a task of its own
NextUI ==
  \/ \E query \in QuerySet : Mount(query)
  \/ MountEffects
  \/ Render
  \/ \E newSeed \in NewSeeds : Click(newSeed)
  \/ TimerFire

\* the browser runs due effects, renders and timers
SpecUI ==
  /\ Init /\ [][NextUI]_vars
  /\ WF_vars(MountEffects) /\ WF_vars(Render) /\ WF_vars(TimerFire)

\* a slider is moved by a key or by a click on its track (onValueChange of
\* lines 170, 203 and 221): discrete events.  The slider reports a value
\* that is not the one it was rendered with
Slide(key, value) ==
  /\ ui.phase \in {"committed", "mounted", "rendered"} /\ ui.edits < MaxEdits
  /\ value # ui.shown.params[key]
  /\ ui' = Flushed([updateParam(ui, key, value) EXCEPT !.edits = @ + 1])
  /\ UNCHANGED <<params, clock, prev, last, bands>>

\* a slider is dragged: pointer moves are continuous events, whose updates
\* React renders in a later task
Drag(key, value) ==
  /\ ui.phase \in {"committed", "mounted", "rendered"} /\ ui.edits < MaxEdits
  /\ value # ui.shown.params[key]
  /\ ui' = [updateParam(ui, key, value) EXCEPT !.edits = @ + 1]
  /\ UNCHANGED <<params, clock, prev, last, bands>>

\* the wheel is turned over a slider, a notch up or down (onWheel of
\* slider.tsx, line 41): a continuous event
Wheel(key, delta) ==
  LET Reported(u) == u # ui /\ ui' = [u EXCEPT !.edits = @ + 1]
  IN  /\ ui.phase \in {"committed", "mounted", "rendered"} /\ ui.edits < MaxEdits
      /\ Reported(handleWheel(ui, key, delta))
      /\ UNCHANGED <<params, clock, prev, last, bands>>

\* a number is typed into an input (onChange of lines 151 and 184)
Type(key, string) ==
  /\ ui.phase \in {"committed", "mounted", "rendered"} /\ ui.edits < MaxEdits
  /\ ui' = Flushed([updateParam(ui, key, Number(string)) EXCEPT !.edits = @ + 1])
  /\ UNCHANGED <<params, clock, prev, last, bands>>

\* a click on Nominal or Real (lines 246-265), buttons that are on the page
\* when the last render had results
ToggleView(showReal) ==
  /\ ui.phase \in {"committed", "mounted", "rendered"}
  /\ ui.shown.simulations # <<>>
  /\ ui' = Flushed([ui EXCEPT !.state.showReal = showReal])
  /\ UNCHANGED <<params, clock, prev, last, bands>>

\* the queries of QuerySet that hold nothing, or an integer seed
SeedQueries ==
  {query \in QuerySet : /\ query.inflationRate = <<>> /\ query.view = <<>>
                        /\ query.seed \in {<<>>, <<<<"4", "2">>>>}}

\* the page with its parameter edits and view toggles, opened on a query
\* that holds at most a seed
NextShare ==
  \/ \E query \in SeedQueries : Mount(query)
  \/ MountEffects
  \/ Render
  \/ URLEffect
  \/ \E newSeed \in NewSeeds : Click(newSeed)
  \/ TimerFire
  \/ \E key \in SliderKeys :
       \/ \E value \in SliderValues : Slide(key, value)
       \/ \E value \in SliderValues : Drag(key, value)
       \/ \E delta \in WheelDeltas : Wheel(key, delta)
  \/ \E key \in {"startingAssets", "initialContribution"}, string \in TypedValues :
       Type(key, string)
  \/ \E showReal \in BOOLEAN : ToggleView(showReal)

SpecShare == Init /\ [][NextShare]_vars

(***************************************************************************)
(* Properties: vocabulary                                                  *)
(***************************************************************************)
IsMonteCarlo(call) == call.op = "runMonteCarloSimulation"

IsPath(call) == call.op = "runSimulation"

IsCall(call) == IsMonteCarlo(call) \/ IsPath(call)

\* two calls of runMonteCarloSimulation were given the same arguments
\* (params is the same for every call of a behaviour)
SameArguments(a, b) == a.numSimulations = b.numSimulations /\ a.seed = b.seed

\* ... and the caller got the same thing back, field by field
SameOutcome(a, b) == a.thrown = b.thrown /\ a.results = b.results

\* the generator after k more calls
RECURSIVE Advance(_, _)
Advance(rng, k) == IF k <= 0 THEN rng ELSE Advance(Draw(rng).rng, k - 1)

\* the number of random() calls of one path
DrawsPerPath(simParams) ==
  IF simParams.years <= 0 THEN 0
  ELSE IF simParams.inflationRate = Zero THEN 2 * simParams.years
  ELSE 4 * simParams.years

\* what the specification calls invalid parameters
RateOutOfBound(rate) == ~IsFinite(rate) \/ rate.v <= -SCALE

IsInvalid(simParams) ==
  \/ simParams.years <= 0
  \/ simParams.startingAssets.v < 0
  \/ simParams.initialContribution.v < 0
  \/ RateOutOfBound(simParams.annualReturn)
  \/ RateOutOfBound(simParams.contributionGrowthRate)
  \/ RateOutOfBound(simParams.inflationRate)

\* the path of the last call returned, on parameters the specification accepts
PathReturned == IsPath(last) /\ last.thrown = "" /\ ~IsInvalid(params)

\* no first uniform of a Box-Muller pair of the last path was exactly 0
RegularDraws ==
  \A k \in 0..(DrawsPerPath(params) - 1) :
    k % 2 = 0 => Draw(Advance(last.random, k)).value # <<0, 0>>

ReturnRates(path) == [i \in 1..Len(path.yearlyData) |-> path.yearlyData[i].returnRate]

InflationRates(path) == [i \in 1..Len(path.yearlyData) |-> path.yearlyData[i].inflationRate]

\* sum of ln(1 + r_i)
LogSum(rates) == NSum([i \in 1..Len(rates) |-> NLog(NAdd(One, rates[i]))])

\* n * ln(1 + target)
LogTarget(target, n) == NMul(NLog(NAdd(One, target)), Int2Num(n))

\* the rounding of the fixed point, per period, in units of 1/SCALE
LogTolerance == SCALE \div 1000

\* a = b up to the rounding of n periods
Near(a, b, n) == IsFinite(a) /\ IsFinite(b) /\ Abs(a.v - b.v) <= n * LogTolerance

\* a >= b up to the rounding of n periods
AtLeast(a, b, n) == NLe(NSub(b, Fin(n * LogTolerance)), a)

FreshGenerators(call) ==
  \A i \in 1..Len(call.generators) :
    call.generators[i] =
      Advance(createSeededRandom(call.baseSeed + (i - 1)), DrawsPerPath(params))

\* paths of two calls whose seeds baseSeed + i coincide are the same path
PathsAgree(a, b) ==
  \A i \in 1..Len(a.results), j \in 1..Len(b.results) :
    a.baseSeed + i = b.baseSeed + j => a.results[i] = b.results[j]

\* C6 (per-path seeding and independence): path i of
\* runMonteCarloSimulation(params, M, baseSeed) is produced by a fresh
\* generator seeded with baseSeed + i that no other path draws from, so it
\* depends on (params, baseSeed + i) only: it is the same whatever M > i is
\* and it is path 0 of the call with M = 1 and base seed baseSeed + i.
PerPathSeeding ==
  /\ IsMonteCarlo(last) => FreshGenerators(last)
  /\ (IsMonteCarlo(prev) /\ IsMonteCarlo(last)) => PathsAgree(prev, last)

\* a call with two paths or more, then the call with one path whose base seed
\* is the seed of the first call's path 1
PerPathSeedingWitness ==
  /\ IsMonteCarlo(prev) /\ IsMonteCarlo(last)
  /\ prev.seed # <<>> /\ last.seed # <<>>
  /\ prev.numSimulations >= 2 /\ Len(prev.results) = prev.numSimulations
  /\ last.numSimulations = 1 /\ Len(last.results) = 1
  /\ last.baseSeed = prev.baseSeed + 1
  /\ params.years = MaxYears
  /\ last.results[1] = prev.results[2]
  /\ prev.results[1] # prev.results[2]

\* C7 (no ambient source): runMonteCarloSimulation only ever uses a seed the
\* caller passed, so what it returns is a function of its explicit
\* arguments: two calls given the same arguments (the seed argument left
\* out both times included) return the same thing.
FunctionOfArguments ==
  (IsMonteCarlo(prev) /\ IsMonteCarlo(last) /\ SameArguments(prev, last))
    => SameOutcome(prev, last)

\* C8 (invalid parameters are rejected): a call of runSimulation or
\* runMonteCarloSimulation with years <= 0, negative startingAssets, negative
\* initialContribution or a rate out of bound throws, and returns no result.
InvalidRejected ==
  (IsCall(last) /\ IsInvalid(params)) => last.thrown # ""

(***************************************************************************)
(* Properties of the samplers and of runSimulation                         *)
(***************************************************************************)
\* C9 (numeric degeneracy guard): whatever the generator returns in [0, 1),
\* an exact 0 for the first uniform of a Box-Muller pair included, every
\* rate the return sampler and the inflation sampler hand back is a finite
\* number.
RatesFinite ==
  PathReturned =>
    \A i \in 1..Len(last.yearlyData) :
      /\ IsFinite(last.yearlyData[i].returnRate)
      /\ IsFinite(last.yearlyData[i].inflationRate)

\* the same for the generators that never return 0 for a first uniform
RatesFiniteRegular == (PathReturned /\ RegularDraws) => RatesFinite

\* C2 (exact geometric mean of the returns): for every target, every number
\* of periods n >= 1 and every sequence of draws, the n returns satisfy
\* sum of ln(1 + r_i) = n * ln(1 + target).
GeometricMean ==
  PathReturned =>
    Near(LogSum(ReturnRates(last)), LogTarget(params.annualReturn, params.years),
         params.years)

GeometricMeanRegular == (PathReturned /\ RegularDraws) => GeometricMean

\* startingAssets + contributions of years 1..t + growth of years 1..t
Accounted(path, t) ==
  NAdd(params.startingAssets,
       NAdd(NSum([i \in 1..t |-> path.yearlyData[i].contribution]),
            NSum([i \in 1..t |-> path.yearlyData[i].growth])))

\* C3 (balance conservation): finalBalance = startingAssets +
\* totalContributions + totalGrowth, and after every year the balance is
\* startingAssets + the contributions so far + the growth so far.
BalanceConservation ==
  PathReturned =>
    /\ NEq(last.finalBalance,
           NAdd(params.startingAssets, NAdd(last.totalContributions, last.totalGrowth)))
    /\ \A t \in 1..Len(last.yearlyData) :
         NEq(last.yearlyData[t].endingBalance, Accounted(last, t))

BalanceConservationRegular == (PathReturned /\ RegularDraws) => BalanceConservation

\* C10 (inflation floor): every inflation rate returned is >= 0; the
\* compounded inflation is at least (1 + target)^n, equal to it when no rate
\* was floored and above it only when one was.
InflationFloor ==
  PathReturned =>
    /\ \A i \in 1..Len(last.yearlyData) : NLe(Zero, last.yearlyData[i].inflationRate)
    /\ AtLeast(LogSum(InflationRates(last)),
               LogTarget(params.inflationRate, params.years), params.years)
    /\ (\A i \in 1..Len(last.yearlyData) : last.yearlyData[i].inflationRate # Zero)
         => Near(LogSum(InflationRates(last)),
                 LogTarget(params.inflationRate, params.years), params.years)

InflationFloorRegular == (PathReturned /\ RegularDraws) => InflationFloor

(***************************************************************************)
(* Properties of calculatePercentiles                                      *)
(***************************************************************************)
\* calculatePercentiles returned, on the paths of a call on parameters the
\* specification accepts
BandsReturned ==
  bands.op = "calculatePercentiles" /\ bands.thrown = "" /\ ~IsInvalid(params)

\* every balance the bands were computed from is a finite number
BalancesFinite ==
  \A k \in 1..Len(last.results), t \in 1..params.years :
    /\ IsFinite(last.results[k].yearlyData[t].endingBalance)
    /\ IsFinite(last.results[k].yearlyData[t].realEndingBalance)

\* C4 (percentile ordering): for every year t and for the nominal and the
\* real view alike, rank r1 <= r2 implies band r1 at t <= band r2 at t; in
\* particular p10[t] <= p25[t] <= p50[t] <= p75[t] <= p90[t].
PercentileOrdering ==
  BandsReturned =>
    \A r1 \in bands.percentiles, r2 \in bands.percentiles :
      r1 <= r2 =>
        \A t \in 1..params.years : NLe(bands.result[r1][t], bands.result[r2][t])

PercentileOrderingRegular == (BandsReturned /\ BalancesFinite) => PercentileOrdering

\* the arrangements of xs in ascending order
AscendingSorts(xs) ==
  {ys \in {[i \in 1..Len(xs) |-> xs[f[i]]] : f \in Permutations(1..Len(xs))} :
     \A i \in 1..(Len(xs) - 1) : NLe(ys[i], ys[i + 1])}

\* min(floor(rank / 100 * M), M - 1), counted from 1
NearestRankIndex(rank, M) ==
  IF (rank * M) \div 100 < M - 1 THEN ((rank * M) \div 100) + 1 ELSE M

\* C5 (nearest-rank selection): for each requested rank and each year t the
\* band holds the element at index min(floor(rank / 100 * M), M - 1) of the
\* ascending sort of the M paths' balances of year t (real balances when
\* useRealValues); there is one sequence per requested rank, of length
\* years, and each entry is the year-t balance of some path.
NearestRank ==
  BandsReturned =>
    /\ DOMAIN bands.result = bands.percentiles
    /\ \A r \in bands.percentiles :
         /\ Len(bands.result[r]) = params.years
         /\ \A t \in 1..params.years :
              LET balances == YearEndBalances(last.results, t, bands.useRealValues)
              IN  /\ \E ys \in AscendingSorts(balances) :
                       bands.result[r][t] = ys[NearestRankIndex(r, Len(balances))]
                  /\ \E k \in 1..Len(balances) : bands.result[r][t] = balances[k]

NearestRankRegular == (BandsReturned /\ BalancesFinite) => NearestRank

(***************************************************************************)
(* Properties of one path, record by record                                *)
(***************************************************************************)
\* the path of the last call returned (whatever the parameters)
PathDone == IsPath(last) /\ last.thrown = ""

\* every balance of the last path is a finite number
PathFinite ==
  \A i \in 1..Len(last.yearlyData) :
    /\ IsFinite(last.yearlyData[i].endingBalance)
    /\ IsFinite(last.yearlyData[i].realEndingBalance)

\* C11 (zero-inflation shortcut): when params.inflationRate is exactly 0,
\* every period record of the path has inflationRate = 0 and cumulative
\* inflation factor 1, so realEndingBalance = endingBalance in every period
\* (the two fields hold the same value); the inflation sampler consumes no
\* draws: the generator is left where the return sampler's 2 * years draws
\* left it.
ZeroInflationShortcut ==
  (PathDone /\ NEq(params.inflationRate, Zero)) =>
    /\ \A i \in 1..Len(last.yearlyData) :
         /\ last.yearlyData[i].inflationRate = Zero
         /\ last.yearlyData[i].cumulativeInflation = One
         /\ last.yearlyData[i].realEndingBalance = last.yearlyData[i].endingBalance
    /\ last.randomAfter = Advance(last.random, 2 * Len(last.yearlyData))

\* a path of MaxYears years with inflationRate 0 on the library's generator,
\* its balances finite and growing
ZeroInflationShortcutWitness ==
  /\ PathDone /\ params.inflationRate = Zero /\ params.years = MaxYears
  /\ last.random.kind = "mulberry32"
  /\ Len(last.yearlyData) = MaxYears
  /\ PathFinite
  /\ NLt(Zero, last.yearlyData[MaxYears].endingBalance)
  /\ last.randomAfter.calls = 2 * MaxYears

\* C12 (single-period boundary): with years = 1, for every seed, the one
\* sampled return r_1 equals annualReturn (the adjustment cancels all the
\* noise), the path has exactly one period record, and
\* finalBalance = (startingAssets + initialContribution) * (1 + annualReturn).
SinglePeriod ==
  (PathReturned /\ params.years = 1) =>
    /\ Len(last.yearlyData) = 1
    /\ Near(last.yearlyData[1].returnRate, params.annualReturn, 1)
    /\ Near(last.finalBalance,
            NMul(NAdd(params.startingAssets, params.initialContribution),
                 NAdd(One, params.annualReturn)), 2)

\* the same for the generators that never return 0 for a first uniform
SinglePeriodRegular == (PathReturned /\ RegularDraws) => SinglePeriod


\* the path of the same call had params.inflationRate been inflationRate
PathWithInflation(inflationRate) ==
  runSimulation([params EXCEPT !.inflationRate = inflationRate], last.random)

\* C13 (draw order and non-interference): runSimulation draws the whole
\* return sequence first and the inflation sequence second from the same
\* generator (returns use draws 1..2*years, inflation draws
\* 2*years+1..4*years); so, for a fixed seed, annualReturn and years, the
\* return sequence of a path is identical for every value of inflationRate.
DrawOrder ==
  (PathDone /\ params.years >= 1) =>
    /\ ReturnRates(last) =
         generateRandomizedReturns(params.annualReturn, params.years,
                                   last.random, ReturnVolatility).rates
    /\ InflationRates(last) =
         generateRandomizedInflation(params.inflationRate, params.years,
                                     Advance(last.random, 2 * params.years),
                                     InflationVolatility).rates
    /\ last.randomAfter = Advance(last.random, DrawsPerPath(params))
    /\ \A inflationRate \in {simParams.inflationRate : simParams \in ParamSet} :
         ReturnRates(PathWithInflation(inflationRate)) = ReturnRates(last)

\* a path of MaxYears years on the library's generator, with finite returns,
\* whose inflation sequence is another one when inflationRate is 0
DrawOrderWitness ==
  /\ PathDone /\ params.years = MaxYears
  /\ last.random.kind = "mulberry32"
  /\ params.inflationRate # Zero
  /\ \A i \in 1..MaxYears : IsFinite(last.yearlyData[i].returnRate)
  /\ last.yearlyData[1].returnRate # last.yearlyData[MaxYears].returnRate
  /\ InflationRates(PathWithInflation(Zero)) # InflationRates(last)
  /\ last.randomAfter = Advance(last.random, 4 * MaxYears)


\* C14 (per-period transition): in every period record the contribution is
\* added before growth is applied:
\* growth = (startingBalance + contribution) * returnRate and
\* endingBalance = startingBalance + contribution + growth.
PeriodTransition ==
  PathDone =>
    \A i \in 1..Len(last.yearlyData) :
      /\ last.yearlyData[i].growth =
           NMul(NAdd(last.yearlyData[i].startingBalance, last.yearlyData[i].contribution),
                last.yearlyData[i].returnRate)
      /\ last.yearlyData[i].endingBalance =
           NAdd(NAdd(last.yearlyData[i].startingBalance, last.yearlyData[i].contribution),
                last.yearlyData[i].growth)

\* a path of MaxYears years with finite balances in whose last year the
\* contribution earned a growth of its own
PeriodTransitionWitness ==
  /\ PathDone /\ params.years = MaxYears /\ Len(last.yearlyData) = MaxYears
  /\ PathFinite
  /\ NLt(Zero, last.yearlyData[MaxYears].contribution)
  /\ NLt(Zero, last.yearlyData[MaxYears].startingBalance)
  /\ last.yearlyData[MaxYears].growth #
       NMul(last.yearlyData[MaxYears].startingBalance, last.yearlyData[MaxYears].returnRate)


\* C15 (returns stay above -100%): every rate the return sampler produces
\* is strictly greater than -1, so for non-negative startingAssets and
\* initialContribution and contributionGrowthRate >= -1 the balance of a
\* path is never negative after any period.
ReturnsAboveMinusOne ==
  PathReturned =>
    \A i \in 1..Len(last.yearlyData) :
      /\ NLt(NNeg(One), last.yearlyData[i].returnRate)
      /\ ~NLt(last.yearlyData[i].endingBalance, Zero)

\* the same for the generators that never return 0 for a first uniform
ReturnsAboveMinusOneRegular == (PathReturned /\ RegularDraws) => ReturnsAboveMinusOne

\* a regular path with a return below -50%
DeepLoss ==
  /\ PathReturned /\ RegularDraws
  /\ \E i \in 1..Len(last.yearlyData) :
       NLt(last.yearlyData[i].returnRate, Fin(-(SCALE \div 2)))


(***************************************************************************)
(* Properties of createSeededRandom                                        *)
(***************************************************************************)
\* w is a 32-bit word: as an unsigned integer 0 <= w < 2^32, so that
\* 0 <= w / 2^32 < 1
IsWord(w) == w[1] \in 0..(H16 - 1) /\ w[2] \in 0..(H16 - 1)

\* the generator of the handle kept a 32-bit state and returned words only
InRange(handle) ==
  /\ IsWord(handle.rng.seed)
  /\ \A i \in 1..Len(handle.values) : IsWord(handle.values[i])

\* C16 (SeededRandom range): for every integer seed (negative seeds and
\* seeds outside the 32-bit range included) and every number of calls, the
\* generator keeps its state as a 32-bit integer and each value returned is
\* an unsigned 32-bit integer divided by 2^32, hence in [0, 1) and never 1;
\* two generators built from the same seed return the same sequence.
SeededRandomRange ==
  last.op = "createSeededRandom" =>
    /\ InRange(last) /\ InRange(prev)
    /\ \A i \in 1..Len(last.values) :
         i <= Len(prev.values) => prev.values[i] = last.values[i]

\* two generators from a seed beyond 32 bits, both called MaxCalls times,
\* the values returned differing from call to call
SeededRandomRangeWitness ==
  /\ last.op = "createSeededRandom"
  /\ last.start = createSeededRandomWide(<<395, 12345, 6789>>)
  /\ Len(last.values) = MaxCalls /\ Len(prev.values) = MaxCalls
  /\ last.values[1] # last.values[MaxCalls]
  /\ last.rng.calls = MaxCalls /\ last.rng.seed # last.start.seed


\* initialContribution * (1 + contributionGrowthRate)^k, multiplied out
\* one factor at a time
RECURSIVE Compounded(_, _, _)
Compounded(amount, rate, k) ==
  IF k <= 0 THEN amount ELSE NMul(Compounded(amount, rate, k - 1), NAdd(One, rate))

\* C17 (contribution schedule): the contribution recorded in period k
\* (counted from 1) equals
\* initialContribution * (1 + contributionGrowthRate)^(k - 1), whatever the
\* returns and the inflation, and totalContributions is the sum of the
\* recorded contributions of periods 1..years (the increase made after the
\* last period is not counted).
ContributionSchedule ==
  PathDone =>
    /\ \A k \in 1..Len(last.yearlyData) :
         last.yearlyData[k].contribution =
           Compounded(params.initialContribution, params.contributionGrowthRate, k - 1)
    /\ last.totalContributions =
         NSum([k \in 1..Len(last.yearlyData) |-> last.yearlyData[k].contribution])

\* a path of MaxYears years whose contribution grew from the first period
\* to the last
ContributionScheduleWitness ==
  /\ PathDone /\ params.years = MaxYears /\ Len(last.yearlyData) = MaxYears
  /\ NLt(Zero, last.yearlyData[1].contribution)
  /\ NLt(last.yearlyData[1].contribution, last.yearlyData[MaxYears].contribution)
  /\ NLt(last.yearlyData[MaxYears].contribution, last.totalContributions)


\* the cumulative inflation factor before period k
FactorBefore(path, k) == IF k = 1 THEN One ELSE path.yearlyData[k - 1].cumulativeInflation

\* C18 (cumulative inflation tracking): the cumulative inflation factor is 1
\* before period 1 and in period k the product over j <= k of
\* (1 + inflationRate_j); inflation rates being floored at 0, it is >= 1 and
\* non-decreasing across periods; realEndingBalance = endingBalance / factor,
\* so realEndingBalance <= endingBalance in every period with a
\* non-negative balance.
CumulativeInflation ==
  PathReturned =>
    \A k \in 1..Len(last.yearlyData) :
      /\ last.yearlyData[k].cumulativeInflation =
           NMul(FactorBefore(last, k), NAdd(One, last.yearlyData[k].inflationRate))
      /\ NLe(One, last.yearlyData[k].cumulativeInflation)
      /\ NLe(FactorBefore(last, k), last.yearlyData[k].cumulativeInflation)
      /\ last.yearlyData[k].realEndingBalance =
           NDiv(last.yearlyData[k].endingBalance, last.yearlyData[k].cumulativeInflation)
      /\ NLe(Zero, last.yearlyData[k].endingBalance)
           => NLe(last.yearlyData[k].realEndingBalance, last.yearlyData[k].endingBalance)

\* the same for the generators that never return 0 for a first uniform
CumulativeInflationRegular == (PathReturned /\ RegularDraws) => CumulativeInflation

\* a regular path of MaxYears years whose factor rose in the last year and
\* whose real balance is below the nominal one
InflationCompounds ==
  /\ PathReturned /\ RegularDraws /\ params.years = MaxYears
  /\ NLt(FactorBefore(last, MaxYears), last.yearlyData[MaxYears].cumulativeInflation)
  /\ NLt(last.yearlyData[MaxYears].realEndingBalance, last.yearlyData[MaxYears].endingBalance)


\* the rates the two samplers hand to the path of the last call
SampledReturns ==
  generateRandomizedReturns(params.annualReturn, params.years,
                            last.random, ReturnVolatility).rates

SampledInflations ==
  generateRandomizedInflation(params.inflationRate, params.years,
                              Advance(last.random, 2 * params.years),
                              InflationVolatility).rates

\* C19 (period chaining): a path has exactly `years` period records,
\* numbered 1..years in order; record 1 has startingBalance =
\* startingAssets, each later record's startingBalance is the previous
\* record's endingBalance, record i uses the i-th sampled return and the
\* i-th sampled inflation rate (no reordering), and finalBalance is the last
\* record's endingBalance.
PeriodChaining ==
  PathReturned =>
    /\ Len(last.yearlyData) = params.years
    /\ \A i \in 1..params.years :
         /\ last.yearlyData[i].year = i
         /\ last.yearlyData[i].startingBalance =
              (IF i = 1 THEN params.startingAssets
                        ELSE last.yearlyData[i - 1].endingBalance)
         /\ last.yearlyData[i].returnRate = SampledReturns[i]
         /\ last.yearlyData[i].inflationRate = SampledInflations[i]
    /\ last.finalBalance = last.yearlyData[params.years].endingBalance

\* a path of MaxYears years with finite balances whose sampled returns
\* differ from year to year and whose balance moved in the first year
PeriodChainingWitness ==
  /\ PathReturned /\ params.years = MaxYears /\ PathFinite
  /\ last.random.kind = "mulberry32"
  /\ SampledReturns[1] # SampledReturns[MaxYears]
  /\ SampledInflations[1] # SampledInflations[MaxYears]
  /\ last.yearlyData[MaxYears].startingBalance # params.startingAssets
  /\ last.finalBalance # last.yearlyData[MaxYears].startingBalance


(***************************************************************************)
(* Properties of FIRECalculator                                            *)
(***************************************************************************)
IsOpen == ui.phase # "unmounted"

\* the seeds a calculation can be triggered with: the URL's or a click's
TriggerSeeds ==
  NewSeeds \cup {Number(query.seed[1]) : query \in {q \in QuerySet : q.seed # <<>>}}

\* a calculation triggered with seed s is pending
Pending(s) == IsOpen /\ \E i \in 1..Len(ui.timers) : ui.timers[i].seed = s

\* results computed with seed s are stored and isCalculating is false
CompletedWith(s) ==
  /\ IsOpen /\ ~ui.state.isCalculating
  /\ ui.state.simulations # <<>> /\ ui.state.simulations[1].seed = s

\* every triggered calculation eventually completes
CalculationCompletes == \A s \in TriggerSeeds : Pending(s) ~> CompletedWith(s)

\* at most one calculation is pending
AtMostOnePending == IsOpen => Len(ui.timers) <= 1

\* stored results are replaced by others
Overwrites ==
  /\ IsOpen /\ ui.state.simulations # <<>>
  /\ ui'.state.simulations # ui.state.simulations

\* stored results are replaced only by those of a calculation triggered
\* after the one they are of: never by those of an older one
NoStaleOverwrite ==
  [][Overwrites => ui'.state.simulations[1].order > ui.state.simulations[1].order]_vars

\* C20 (UI calculation lifecycle): every triggered calculation (a Calculate
\* click, which always generates a new seed, or the automatic run on mount
\* when the URL carries a seed) eventually completes, setting isCalculating
\* back to false and storing results computed with the triggering seed; the
\* Calculate button being disabled while isCalculating is true, at most one
\* calculation is pending at any time and a completed calculation is never
\* overwritten by an older one.
CalculationLifecycle ==
  /\ CalculationCompletes
  /\ []AtMostOnePending
  /\ NoStaleOverwrite

\* at most one calculation is pending on a page opened without a seed in
\* the URL, where only clicks trigger calculations
ClicksOnly == (IsOpen /\ ui.opened.seed = <<>>) => AtMostOnePending

\* the results stored are those of the seed of the page: of the latest
\* click, or of the URL before any click
SeedInForce ==
  (IsOpen /\ ui.state.simulations # <<>> /\ ui.timers = <<>>)
    => <<ui.state.simulations[1].seed>> = ui.state.seed

\* the outcome of two calculations pending together, the click first: both
\* have completed, the results stored are those of the URL's seed and the
\* seed of the page is the click's
RaceOutcome ==
  /\ IsOpen /\ ui.timers = <<>> /\ ui.triggered = 2
  /\ ui.state.simulations # <<>> /\ ui.state.simulations[1].order = 2
  /\ ui.opened.seed # <<>>
  /\ ui.state.simulations[1].seed = Number(ui.opened.seed[1])
  /\ <<ui.state.simulations[1].seed>> # ui.state.seed

\* a second calculation completed on a page opened without a seed
SecondCalculation ==
  /\ IsOpen /\ ui.opened.seed = <<>>
  /\ CompletedWith(Whole(43)) /\ ui.timers = <<>> /\ ui.shown = ui.state
  /\ ui.url.seed = <<<<"4", "3">>>>


\* results are on the page, as rendered
Displayed == IsOpen /\ ui.shown.simulations # <<>>

\* no calculation is pending, the page shows the current state and no
\* effect is left to run
Settled ==
  /\ ui.timers = <<>> /\ ~ui.state.isCalculating
  /\ ui.shown = ui.state /\ ui.phase = "mounted"

\* the state of a page opened on the URL as last written
Reopened == FirstRender(ui.url)

\* the results displayed are the paths of runMonteCarloSimulation for the
\* params and the seed of the URL
ReproducedByURL ==
  /\ Reopened.seed # <<>>
  /\ ui.shown.simulations[1].results
       = MonteCarloLoop(0, MaxPaths, FixedParams(Reopened.params), Reopened.seed[1],
                        <<>>, <<>>).results

\* C21 (shareable-URL reproducibility): after any sequence of parameter
\* edits, view toggles and Calculate clicks, whenever results are displayed
\* and no calculation is pending, the displayed results equal
\* runMonteCarlo(params, 100, seed) for the params and seed currently written
\* in the URL, so that opening the URL elsewhere reproduces what is shown.
ShareableURL == (Displayed /\ Settled) => ReproducedByURL

\* the round trip itself: when no effect is left to run the URL is the one
\* written from the last render, and a page opened on it starts from the
\* params, the seed and the view of that render.  While the URL effect of
\* a render is still to run, the URL is that of a render before
URLRoundTrip ==
  ui.phase = "mounted" =>
    /\ ui.url = QueryOf(ui.shown)
    /\ Reopened.params = ui.shown.params
    /\ Reopened.seed = ui.shown.seed
    /\ Reopened.showReal = ui.shown.showReal

\* a render whose URL effect is still to run: the URL is not that of the
\* page
URLBehind == ui.phase = "rendered" /\ ui.url # QueryOf(ui.shown)

\* the results displayed are those of the params and the seed they were
\* computed with
ReproducedByClosure ==
  (Displayed /\ Settled) =>
    ui.shown.simulations[1].results
      = MonteCarloLoop(0, MaxPaths, FixedParams(ui.shown.simulations[1].params),
                       ui.shown.simulations[1].seed, <<>>, <<>>).results

\* results on the page of which the URL holds the seed but other params:
\* the slider was moved after the calculation
EditedAfterwards ==
  /\ Displayed /\ Settled
  /\ ui.url.seed = <<toString(ui.shown.simulations[1].seed)>>
  /\ ui.shown.simulations[1].params.inflationRate = Widened(PerMille(25))
  /\ ui.url.inflationRate = <<<<"0">>>>


\* the same for results whose params were not edited since they were
\* computed, on a page opened without a seed, where only clicks trigger
\* calculations
ShareableURLUnedited ==
  (/\ Displayed /\ Settled
   /\ ui.opened.seed = <<>>
   /\ ui.shown.params = ui.shown.simulations[1].params) => ReproducedByURL

=============================================================================
